---- MODULE Spec2Model ----
(***************************************************************************)
(* figma-beacon: the interactive session controller (bubbletea model and   *)
(* its Update function), the profile store it drives, and the activity     *)
(* report formatter.  The session part follows the whole-project variant   *)
(* of the program (src/unnamed/part_000, second program, lines 1112-4233); *)
(* main.go is the menu-only first draft.                                   *)
(*                                                                         *)
(* Modelling conventions                                                   *)
(*  - a Go pointer to a Profile is a sequence of length at most one:      *)
(*    <<>> is nil, <<p>> points at the value p.  The program never writes  *)
(*    through such a pointer and never mutates a profile slice in place    *)
(*    (it only replaces m.profiles), so a pointer behaves as a snapshot.   *)
(*  - the profiles directory is the sequence of the profiles stored in     *)
(*    it, in file-name order, which is the order os.ReadDir lists them.    *)
(*  - text typed into the bubbles textinput is one event that replaces     *)
(*    the buffer by a text of the context's alphabet (the library is not   *)
(*    part of the repository).                                             *)
(*  - the quit keys (ctrl+c, q) and the letter aliases of the arrow keys   *)
(*    (k, j, h, l) and of the command keys (Y, N, D, E) are left out of    *)
(*    the key alphabet: they end the program, or repeat another key.       *)
(***************************************************************************)
EXTENDS Integers, Sequences, FiniteSets, Bags, TLC

VARIABLES m, disk, cfgFile, cmd, inflight, now, halted, budget,
          fmtReport, fmtOut1, fmtOut2,
          genIn, genWindow, genOut

vars == <<m, disk, cfgFile, cmd, inflight, now, halted, budget,
         fmtReport, fmtOut1, fmtOut2, genIn, genWindow, genOut>>

(***************************************************************************)
(* Bounds of the model.                                                    *)
(***************************************************************************)
\* number of distinct profile names the user can type
MaxNames == 3
\* number of profiles the wizard may create in one run (caps the clock)
MaxClock == 2
\* number of commands that may be in flight at once
MaxInFlight == 3
\* number of events (keys and delivered results) of a bounded session
MaxSteps == 12
\* number of events of a bounded session on the profile screens
ProfileSteps == 17
\* number of events of a session that runs the profile wizard twice
WizardSteps == 20
\* number of events of a session that deletes a profile, selects a menu entry
\* and runs a report
StatusSteps == 14
\* number of projects of the largest team (more than one page of the list)
MaxProjects == 12
\* the first calendar year of the instants a report is generated at, and the
\* number of years they span
FirstYear == 2023
MaxYears == 2
\* the File-Selection list: number of selected projects and the largest
\* number of files of a project (two such projects fill more than one page)
MaxGroups == 3
MaxGroupFiles == 6
\* number of files the remote projects hold
MaxRemoteFiles == 2
\* number of file entries of a report handed to the formatter
MaxFiles == 3

\* profile names, in file-name order
AllNames == <<"a", "b", "c", "d">>

Names == {AllNames[i] : i \in 1..MaxNames}

NameIndex(n) == CHOOSE i \in 1..Len(AllNames) : AllNames[i] = n

\* remote projects a team can hold
P1 == [ID |-> "p1", Name |-> "Alpha"]

P2 == [ID |-> "p2", Name |-> "Beta"]

\* the project lists the team-projects endpoint may answer with
ProjectLists == {<<>>, <<P1, P2>>}

\* texts the user can type as a team identifier, and as a profile name
TeamTexts == {"", "t1"}

NameTexts == {""} \cup Names

\* texts the user can type on the setup screen
SetupTexts == {"", "k"}

\* page size of the paginated lists
PageSize == 10

(***************************************************************************)
(* Small helpers on sequences.                                             *)
(***************************************************************************)
Range(s) == {s[i] : i \in 1..Len(s)}

RECURSIVE SelectSeqBy(_, _)
\* the elements of s whose ID is in ids, in the order of s
SelectSeqBy(s, ids) ==
  IF s = <<>> THEN <<>>
  ELSE IF Head(s).ID \in ids THEN <<Head(s)>> \o SelectSeqBy(Tail(s), ids)
       ELSE SelectSeqBy(Tail(s), ids)

(***************************************************************************)
(* The profile store: one <name>.beacon file per profile.                  *)
(***************************************************************************)
RECURSIVE InsertByName(_, _)
InsertByName(d, p) ==
  IF d = <<>> THEN <<p>>
  ELSE IF NameIndex(p.Name) < NameIndex(Head(d).Name) THEN <<p>> \o d
       ELSE <<Head(d)>> \o InsertByName(Tail(d), p)

\* os.Remove of the profile's file; the directory without it
RemoveFile(d, name) == SelectSeq(d, LAMBDA p : p.Name # name)

FileExists(d, name) == \E i \in 1..Len(d) : d[i].Name = name

\* saveProfile: os.WriteFile replaces the file of that name
saveProfile(d, profile) == InsertByName(RemoveFile(d, profile.Name), profile)

\* deleteProfile: os.Remove fails when the file is not there
deleteProfile(d, name) ==
  [ok |-> FileExists(d, name), disk |-> RemoveFile(d, name)]

\* loadAllProfiles: the profiles in directory order
loadAllProfiles(d) == d

\* setDefaultProfile: clear every flag (saving each profile), then set one
setDefaultProfile(d, name) ==
  LET cleared == [i \in 1..Len(d) |-> [d[i] EXCEPT !.IsDefault = FALSE]]
  IN [i \in 1..Len(d) |->
        IF cleared[i].Name = name /\ \A j \in 1..(i-1) : cleared[j].Name # name
        THEN [cleared[i] EXCEPT !.IsDefault = TRUE]
        ELSE cleared[i]]

(***************************************************************************)
(* initialModel.                                                           *)
(***************************************************************************)
NoProfileStatus == <<"No profile selected">>

ProfileStatus(name) == <<"Profile: ", name>>

SpinnerStatus(frame, name) == <<"spinner", frame, name>>

BlankItem == [title |-> <<>>]

ProfileItem(p) ==
  [title |-> IF p.IsDefault THEN <<"  - ", p.Name, " (default)">>
             ELSE <<"  - ", p.Name>>]

RECURSIVE InsertByCreated(_, _)
InsertByCreated(s, p) ==
  IF s = <<>> THEN <<p>>
  ELSE IF p.CreatedAt > Head(s).CreatedAt THEN <<p>> \o s
       ELSE <<Head(s)>> \o InsertByCreated(Tail(s), p)

RECURSIVE SortByCreated(_)
\* sort.Slice by CreatedAt, most recent first
SortByCreated(s) ==
  IF s = <<>> THEN <<>>
  ELSE InsertByCreated(SortByCreated(Tail(s)), Head(s))

FirstDefault(profiles) ==
  IF \E i \in 1..Len(profiles) : profiles[i].IsDefault
  THEN <<profiles[CHOOSE i \in 1..Len(profiles) :
            /\ profiles[i].IsDefault
            /\ \A j \in 1..(i-1) : ~profiles[j].IsDefault]>>
  ELSE <<>>

StatusOf(active) ==
  IF active = <<>> THEN NoProfileStatus ELSE ProfileStatus(active[1].Name)

menuItemsOf(profiles) ==
  LET sorted == SortByCreated(profiles)
      shown == SubSeq(sorted, 1, IF Len(sorted) > 3 THEN 3 ELSE Len(sorted))
  IN <<BlankItem,
       [title |-> <<"Generate Activity Report">>],
       [title |-> <<"Manage Profiles">>]>>
     \o [i \in 1..Len(shown) |-> ProfileItem(shown[i])]
     \o <<BlankItem,
          [title |-> <<"Setup">>],
          [title |-> <<"Exit">>],
          BlankItem>>

NoReport == <<>>

initialModel(d, cfg) ==
  LET profiles == loadAllProfiles(d)
      activeProfile == FirstDefault(profiles)
  IN [menuItems          |-> menuItemsOf(profiles),
      selectedIndex      |-> 1,
      profileStatus      |-> StatusOf(activeProfile),
      currentScreen      |-> "mainMenuScreen",
      setupIndex         |-> 0,
      figmaToken         |-> cfg.FigmaToken,
      userID             |-> cfg.UserID,
      teamID             |-> cfg.TeamID,
      textInput          |-> "",
      editingIndex       |-> -1,
      userHandle         |-> cfg.UserHandle,
      userEmail          |-> cfg.UserEmail,
      fetchingUser       |-> FALSE,
      userFetchError     |-> "",
      profiles           |-> profiles,
      activeProfile      |-> activeProfile,
      previewProfile     |-> <<>>,
      wizardStep         |-> "wizardTeamID",
      wizardTeamID       |-> "",
      wizardProjects     |-> <<>>,
      wizardSelectedProj |-> {},
      wizardProfileName  |-> "",
      wizardEditMode     |-> FALSE,
      loadingState       |-> "notLoading",
      loadingError       |-> "",
      loadingProgress    |-> <<>>,
      listOffset         |-> 0,
      listCursor         |-> 0,
      showDeleteConfirm  |-> FALSE,
      deleteProfileName  |-> "",
      reportConfig       |-> [TimeMode |-> ""],
      reportTimeIndex    |-> 0,
      reportProfileIndex |-> 0,
      generatingReport   |-> FALSE,
      reportingProfile   |-> <<>>,
      activityReport     |-> NoReport,
      reportError        |-> "",
      reportContent      |-> <<>>,
      exportSuccess      |-> <<>>,
      exportError        |-> "",
      spinnerFrame       |-> 0]

(***************************************************************************)
(* Update.  A handler maps the world w = [m, disk, cfg] and the event ev   *)
(* to the new world, the commands Update returns (cmds) and whether the    *)
(* program panicked (halt).  An event carries the key, the text typed      *)
(* when the key goes to the text input, and the outcome of the file-system *)
(* calls the handler makes (writeOk, removeOk) and the clock (now).        *)
(***************************************************************************)
Ret(mm, d, c, cmds) ==
  [m |-> mm, disk |-> d, cfg |-> c, cmds |-> cmds, halt |-> FALSE]

Keep(w) == Ret(w.m, w.disk, w.cfg, <<>>)

\* a nil dereference or an index out of range: the program panics
Panic(w) ==
  [m |-> w.m, disk |-> w.disk, cfg |-> w.cfg, cmds |-> <<>>, halt |-> TRUE]

configOf(mm) ==
  [FigmaToken |-> mm.figmaToken, UserID |-> mm.userID, TeamID |-> mm.teamID,
   UserHandle |-> mm.userHandle, UserEmail |-> mm.userEmail]

\* saveCurrentConfig: the error of saveConfig is dropped
saveCurrentConfig(mm, c, ev) == IF ev.writeOk THEN configOf(mm) ELSE c

tickCmd == [type |-> "tick"]

fetchUserInfo(token) == [type |-> "fetchUserInfo", token |-> token]

fetchProjects(token, teamID) ==
  [type |-> "fetchProjects", token |-> token, teamID |-> teamID]

generateReport(token, userID, userHandle, teamID, config, profile) ==
  [type |-> "generateReport", token |-> token, userID |-> userID,
   userHandle |-> userHandle, teamID |-> teamID, config |-> config,
   profile |-> profile]

exportReport(content, profileName) ==
  [type |-> "exportReport", content |-> content, profileName |-> profileName]

Quit == [type |-> "quit"]

\* restore the profile status after a report run
RestoreStatus(mm) ==
  IF mm.activeProfile # <<>>
  THEN [mm EXCEPT !.profileStatus = ProfileStatus(mm.activeProfile[1].Name)]
  ELSE mm

(***************************************************************************)
(* Delivered results.                                                      *)
(***************************************************************************)
OnUserInfoMsg(w, msg, ev) ==
  LET mm == [w.m EXCEPT !.userID = msg.id, !.userHandle = msg.handle,
                        !.userEmail = msg.email, !.fetchingUser = FALSE,
                        !.userFetchError = ""]
  IN Ret(mm, w.disk, saveCurrentConfig(mm, w.cfg, ev), <<>>)

OnUserInfoErrMsg(w, msg) ==
  Ret([w.m EXCEPT !.fetchingUser = FALSE, !.userFetchError = msg.err],
      w.disk, w.cfg, <<>>)

\* a delivered project list that takes the wizard on to the name step
OnProjectsCompleteMsgAdvance(w, msg) ==
  Ret([w.m EXCEPT !.wizardProjects = msg.projects,
                  !.loadingState = "notLoading",
                  !.loadingError = "",
                  !.loadingProgress = <<"Found projects", msg.count>>,
                  !.listCursor = 0,
                  !.listOffset = 0,
                  !.wizardStep = "wizardSaveName"],
      w.disk, w.cfg, <<>>)

OnProjectsCompleteMsg(w, msg) ==
  Ret([w.m EXCEPT !.wizardProjects = msg.projects,
                  !.loadingState = "notLoading",
                  !.loadingError = "",
                  !.loadingProgress = <<"Found projects", msg.count>>,
                  !.listCursor = 0,
                  !.listOffset = 0],
      w.disk, w.cfg, <<>>)

\* a failed discovery that sends the wizard back to the team step
OnProjectsErrMsgRestart(w, msg) ==
  Ret([w.m EXCEPT !.loadingState = "notLoading", !.loadingError = msg.err,
                  !.wizardStep = "wizardTeamID"],
      w.disk, w.cfg, <<>>)

OnProjectsErrMsg(w, msg) ==
  Ret([w.m EXCEPT !.loadingState = "notLoading", !.loadingError = msg.err],
      w.disk, w.cfg, <<>>)

OnReportGeneratedMsg(w, msg) ==
  LET mm == [RestoreStatus(w.m) EXCEPT !.generatingReport = FALSE,
                                       !.activityReport = msg.report,
                                       !.reportContent = msg.content,
                                       !.reportError = "",
                                       !.currentScreen = "reportViewScreen",
                                       !.reportingProfile = <<>>]
      profileName == IF w.m.activeProfile # <<>>
                     THEN w.m.activeProfile[1].Name ELSE "default"
  IN Ret(mm, w.disk, w.cfg, <<exportReport(msg.content, profileName)>>)

OnReportErrMsg(w, msg) ==
  Ret([RestoreStatus(w.m) EXCEPT !.generatingReport = FALSE,
                                 !.reportError = msg.err,
                                 !.currentScreen = "reportViewScreen",
                                 !.reportingProfile = <<>>],
      w.disk, w.cfg, <<>>)

OnReportExportedMsg(w, msg) ==
  Ret([w.m EXCEPT !.exportSuccess = <<"Report saved to: ">> \o msg.filepath,
                  !.exportError = ""],
      w.disk, w.cfg, <<>>)

OnReportExportErrMsg(w, msg) ==
  Ret([w.m EXCEPT !.exportSuccess = <<>>, !.exportError = msg.err],
      w.disk, w.cfg, <<>>)

SpinnerChars == 4

\* a tick that schedules the next one whatever the program is doing
OnTickMsgForever(w) ==
  LET frame == (w.m.spinnerFrame + 1) % SpinnerChars
  IN Ret([w.m EXCEPT !.spinnerFrame = frame], w.disk, w.cfg, <<tickCmd>>)

OnTickMsg(w) ==
  IF w.m.generatingReport
  THEN LET frame == (w.m.spinnerFrame + 1) % SpinnerChars
           mm == [w.m EXCEPT !.spinnerFrame = frame]
       IN Ret(IF mm.reportingProfile # <<>>
              THEN [mm EXCEPT !.profileStatus =
                                SpinnerStatus(frame, mm.reportingProfile[1].Name)]
              ELSE mm,
              w.disk, w.cfg, <<tickCmd>>)
  ELSE Keep(w)

(***************************************************************************)
(* Keys on the report screens.                                             *)
(***************************************************************************)
ToMainMenu(mm) == [mm EXCEPT !.currentScreen = "mainMenuScreen", !.selectedIndex = 1]

TimeModes ==
  <<"last_week", "last_month", "this_month_to_date", "last_4_weeks", "last_30_days">>

KeyReportConfig(w, ev) ==
  LET mm == w.m
      n == Len(mm.profiles)
  IN CASE ev.key = "esc" -> Ret(ToMainMenu(mm), w.disk, w.cfg, <<>>)
       [] ev.key = "left" ->
            Ret(IF n > 0 /\ mm.reportProfileIndex > 0
                THEN [mm EXCEPT !.reportProfileIndex = @ - 1] ELSE mm,
                w.disk, w.cfg, <<>>)
       [] ev.key = "right" ->
            Ret(IF n > 0 /\ mm.reportProfileIndex < n - 1
                THEN [mm EXCEPT !.reportProfileIndex = @ + 1] ELSE mm,
                w.disk, w.cfg, <<>>)
       [] ev.key = "up" ->
            Ret(IF mm.reportTimeIndex > 0
                THEN [mm EXCEPT !.reportTimeIndex = @ - 1] ELSE mm,
                w.disk, w.cfg, <<>>)
       [] ev.key = "down" ->
            Ret(IF mm.reportTimeIndex < Len(TimeModes) - 1
                THEN [mm EXCEPT !.reportTimeIndex = @ + 1] ELSE mm,
                w.disk, w.cfg, <<>>)
       [] ev.key = "enter" ->
            IF n = 0
            THEN Ret([mm EXCEPT !.reportError = "No profiles available"],
                     w.disk, w.cfg, <<>>)
            ELSE IF mm.reportProfileIndex >= n THEN Panic(w)
            ELSE LET config == [TimeMode |-> TimeModes[mm.reportTimeIndex + 1]]
                     selectedProfile == <<mm.profiles[mm.reportProfileIndex + 1]>>
                 IN Ret([mm EXCEPT !.reportConfig = config,
                                   !.generatingReport = TRUE,
                                   !.reportingProfile = selectedProfile,
                                   !.currentScreen = "reportGeneratingScreen",
                                   !.spinnerFrame = 0],
                        w.disk, w.cfg,
                        <<generateReport(mm.figmaToken, mm.userID, mm.userHandle,
                                         mm.teamID, config, selectedProfile),
                          tickCmd>>)
       [] OTHER -> Keep(w)

\* reportGeneratingScreen and reportViewScreen share one handler
KeyReportView(w, ev) ==
  IF ev.key = "esc"
  THEN Ret([RestoreStatus(ToMainMenu(w.m)) EXCEPT !.generatingReport = FALSE,
                                                  !.reportContent = <<>>,
                                                  !.reportError = "",
                                                  !.exportSuccess = <<>>,
                                                  !.exportError = "",
                                                  !.reportingProfile = <<>>],
           w.disk, w.cfg, <<>>)
  ELSE Keep(w)

(***************************************************************************)
(* Keys on the profile preview screen.                                     *)
(***************************************************************************)
KeyProfilePreview(w, ev) ==
  LET mm == w.m
  IN CASE ev.key = "esc" ->
            Ret([mm EXCEPT !.currentScreen = "manageProfilesScreen",
                           !.previewProfile = <<>>],
                w.disk, w.cfg, <<>>)
       [] ev.key = "e" ->
            IF mm.previewProfile # <<>>
            THEN LET p == mm.previewProfile[1]
                 IN Ret([mm EXCEPT !.wizardEditMode = TRUE,
                                   !.wizardStep = "wizardTeamID",
                                   !.wizardTeamID = p.TeamID,
                                   !.wizardProfileName = p.Name,
                                   !.wizardSelectedProj =
                                       {q.ID : q \in Range(p.SelectedProjects)},
                                   !.wizardProjects = <<>>,
                                   !.loadingState = "notLoading",
                                   !.loadingError = "",
                                   !.listCursor = 0,
                                   !.listOffset = 0,
                                   !.currentScreen = "profileWizardScreen"],
                        w.disk, w.cfg, <<>>)
            ELSE Keep(w)
       [] ev.key = "d" ->
            IF mm.previewProfile # <<>>
            THEN Ret([mm EXCEPT !.showDeleteConfirm = TRUE,
                                !.deleteProfileName = mm.previewProfile[1].Name,
                                !.currentScreen = "manageProfilesScreen",
                                !.previewProfile = <<>>],
                     w.disk, w.cfg, <<>>)
            ELSE Keep(w)
       [] OTHER -> Keep(w)

(***************************************************************************)
(* Keys on the profile wizard screen.                                      *)
(***************************************************************************)
\* the default branch of an editing handler: the key goes to the text input
TextInputUpdate(w, ev) ==
  IF ev.key = "type"
  THEN Ret([w.m EXCEPT !.textInput = ev.text], w.disk, w.cfg, <<>>)
  ELSE Keep(w)

\* the old record is removed before the new one is written
CommitStore(d, old, profile, renamed, ev) ==
  LET afterDelete == IF renamed /\ ev.removeOk THEN deleteProfile(d, old).disk ELSE d
  IN [ok |-> ev.writeOk,
      disk |-> IF ev.writeOk THEN saveProfile(afterDelete, profile) ELSE afterDelete]

\* a check of the name that edit mode always skips
DuplicateCheckedOnCreate(mm, profileName) == ~mm.wizardEditMode

\* the name is compared with the loaded profiles, except in edit mode under
\* the name of the profile being edited
DuplicateChecked(mm, profileName) ==
  ~mm.wizardEditMode \/ profileName # mm.previewProfile[1].Name

\* enter while editing the profile name on the save step: commit the profile
WizardCommit(w, ev) ==
  LET profileName == w.m.textInput
      mm == [w.m EXCEPT !.textInput = "", !.editingIndex = -1]
      nameTaken == \E i \in 1..Len(mm.profiles) : mm.profiles[i].Name = profileName
      selectedProjects ==
        [i \in 1..Len(SelectSeqBy(mm.wizardProjects, mm.wizardSelectedProj)) |->
           LET q == SelectSeqBy(mm.wizardProjects, mm.wizardSelectedProj)[i]
           IN [ID |-> q.ID, Name |-> q.Name]]
      editing == mm.wizardEditMode /\ mm.previewProfile # <<>>
      profile ==
        IF editing
        THEN [Name |-> profileName, TeamID |-> mm.wizardTeamID,
              SelectedProjects |-> selectedProjects,
              CreatedAt |-> mm.previewProfile[1].CreatedAt,
              IsDefault |-> mm.previewProfile[1].IsDefault]
        ELSE [Name |-> profileName, TeamID |-> mm.wizardTeamID,
              SelectedProjects |-> selectedProjects,
              CreatedAt |-> ev.now,
              IsDefault |-> Len(mm.profiles) = 0]
      stored == CommitStore(w.disk,
                            IF editing THEN mm.previewProfile[1].Name ELSE "",
                            profile,
                            editing /\ profileName # mm.previewProfile[1].Name,
                            ev)
      profiles == loadAllProfiles(stored.disk)
      activated ==
        IF mm.wizardEditMode /\ mm.activeProfile # <<>> /\ mm.previewProfile # <<>>
        THEN IF mm.activeProfile[1].Name = mm.previewProfile[1].Name
             THEN [mm EXCEPT !.activeProfile = <<profile>>,
                             !.profileStatus = ProfileStatus(profile.Name)]
             ELSE mm
        ELSE IF profile.IsDefault
             THEN [mm EXCEPT !.activeProfile = <<profile>>,
                             !.profileStatus = ProfileStatus(profile.Name)]
             ELSE mm
  IN IF profileName = ""
     THEN Ret([mm EXCEPT !.loadingError = "Profile name is required"],
              w.disk, w.cfg, <<>>)
     ELSE IF mm.wizardEditMode /\ mm.previewProfile = <<>> THEN Panic(w)
     ELSE IF DuplicateChecked(mm, profileName) /\ nameTaken
     THEN Ret([mm EXCEPT !.loadingError = "Profile name already exists"],
              w.disk, w.cfg, <<>>)
     ELSE IF ~stored.ok
     THEN Ret([mm EXCEPT !.loadingError = "Failed to save profile"],
              stored.disk, w.cfg, <<>>)
     ELSE Ret([activated EXCEPT !.profiles = profiles,
                                !.wizardEditMode = FALSE,
                                !.previewProfile = <<>>,
                                !.currentScreen = "manageProfilesScreen",
                                !.listCursor = 0],
              stored.disk, w.cfg, <<>>)

KeyWizardSaveName(w, ev) ==
  CASE ev.key = "esc" ->
         Ret([w.m EXCEPT !.textInput = "", !.editingIndex = -1],
             w.disk, w.cfg, <<>>)
    [] ev.key = "enter" -> WizardCommit(w, ev)
    [] OTHER -> TextInputUpdate(w, ev)

\* a team step that moves on with whatever identifier was typed
KeyWizardTeamIDUnchecked(w, ev) ==
  CASE ev.key = "esc" ->
         Ret([w.m EXCEPT !.textInput = "", !.editingIndex = -1],
             w.disk, w.cfg, <<>>)
    [] ev.key = "enter" ->
         LET mm == [w.m EXCEPT !.wizardTeamID = w.m.textInput,
                               !.textInput = "", !.editingIndex = -1]
         IN Ret([mm EXCEPT !.wizardStep = "wizardProjects",
                           !.loadingState = "loadingProjects",
                           !.loadingError = "",
                           !.listCursor = 0,
                           !.listOffset = 0],
                w.disk, w.cfg,
                <<fetchProjects(mm.figmaToken, mm.wizardTeamID)>>)
    [] OTHER -> TextInputUpdate(w, ev)

KeyWizardTeamID(w, ev) ==
  CASE ev.key = "esc" ->
         Ret([w.m EXCEPT !.textInput = "", !.editingIndex = -1],
             w.disk, w.cfg, <<>>)
    [] ev.key = "enter" ->
         LET mm == [w.m EXCEPT !.wizardTeamID = w.m.textInput,
                               !.textInput = "", !.editingIndex = -1]
         IN IF mm.wizardTeamID = ""
            THEN Ret([mm EXCEPT !.loadingError = "Team ID is required"],
                     w.disk, w.cfg, <<>>)
            ELSE Ret([mm EXCEPT !.wizardStep = "wizardProjects",
                                !.loadingState = "loadingProjects",
                                !.loadingError = "",
                                !.listCursor = 0,
                                !.listOffset = 0],
                     w.disk, w.cfg,
                     <<fetchProjects(mm.figmaToken, mm.wizardTeamID)>>)
    [] OTHER -> TextInputUpdate(w, ev)

\* an enter that leaves Project-Selection whatever is selected
WizardEnterUnchecked(w) ==
  LET mm == w.m
  IN IF mm.wizardStep = "wizardTeamID" /\ mm.editingIndex = -1
     THEN Ret([mm EXCEPT !.editingIndex = 0, !.textInput = mm.wizardTeamID],
              w.disk, w.cfg, <<>>)
     ELSE IF mm.wizardStep = "wizardProjects"
     THEN Ret([mm EXCEPT !.wizardStep = "wizardSaveName",
                         !.loadingError = "",
                         !.editingIndex = -1],
              w.disk, w.cfg, <<>>)
     ELSE IF mm.wizardStep = "wizardSaveName" /\ mm.editingIndex = -1
     THEN Ret([mm EXCEPT !.editingIndex = 0, !.textInput = mm.wizardProfileName],
              w.disk, w.cfg, <<>>)
     ELSE Keep(w)

\* enter on the wizard when no field is being edited
WizardEnter(w) ==
  LET mm == w.m
  IN IF mm.wizardStep = "wizardTeamID" /\ mm.editingIndex = -1
     THEN Ret([mm EXCEPT !.editingIndex = 0, !.textInput = mm.wizardTeamID],
              w.disk, w.cfg, <<>>)
     ELSE IF mm.wizardStep = "wizardProjects"
     THEN IF mm.wizardSelectedProj = {}
          THEN Ret([mm EXCEPT !.loadingError = "Please select at least one project"],
                   w.disk, w.cfg, <<>>)
          ELSE Ret([mm EXCEPT !.wizardStep = "wizardSaveName",
                              !.loadingError = "",
                              !.editingIndex = -1],
                   w.disk, w.cfg, <<>>)
     ELSE IF mm.wizardStep = "wizardSaveName" /\ mm.editingIndex = -1
     THEN Ret([mm EXCEPT !.editingIndex = 0, !.textInput = mm.wizardProfileName],
              w.disk, w.cfg, <<>>)
     ELSE Keep(w)

\* a selection that only grows
AddProject(selected, id) == selected \cup {id}

\* the selection after space on the project id: the keys of the map that
\* are set
ToggleProject(selected, id) ==
  IF id \in selected THEN selected \ {id} ELSE selected \cup {id}

\* the offset after the cursor moved up: scroll only to keep it visible
OffsetAfterUp(cursor, offset) == IF cursor < offset THEN cursor ELSE offset

\* a list that never scrolls
OffsetKept(cursor, offset) == offset

\* the offset after the cursor moved down: scroll only to keep it visible
OffsetAfterDown(cursor, offset) ==
  IF cursor >= offset + PageSize THEN cursor - PageSize + 1 ELSE offset

KeyWizardIdle(w, ev) ==
  LET mm == w.m
      n == Len(mm.wizardProjects)
      onList == mm.wizardStep = "wizardProjects" /\ n > 0
  IN CASE ev.key = "esc" ->
            Ret([mm EXCEPT !.currentScreen = "manageProfilesScreen",
                           !.listCursor = 0,
                           !.wizardEditMode = FALSE,
                           !.previewProfile = <<>>],
                w.disk, w.cfg, <<>>)
       [] ev.key = "up" ->
            Ret(IF onList /\ mm.listCursor > 0
                THEN [mm EXCEPT !.listCursor = @ - 1,
                                !.listOffset = OffsetAfterUp(mm.listCursor - 1, @)]
                ELSE mm,
                w.disk, w.cfg, <<>>)
       [] ev.key = "down" ->
            Ret(IF onList /\ mm.listCursor < n - 1
                THEN [mm EXCEPT !.listCursor = @ + 1,
                                !.listOffset = OffsetAfterDown(mm.listCursor + 1, @)]
                ELSE mm,
                w.disk, w.cfg, <<>>)
       [] ev.key = " " ->
            Ret(IF onList /\ mm.listCursor < n
                THEN LET id == mm.wizardProjects[mm.listCursor + 1].ID
                     IN [mm EXCEPT !.wizardSelectedProj = ToggleProject(@, id)]
                ELSE mm,
                w.disk, w.cfg, <<>>)
       [] ev.key = "enter" -> WizardEnter(w)
       [] OTHER -> Keep(w)

KeyProfileWizard(w, ev) ==
  IF w.m.wizardStep = "wizardSaveName" /\ w.m.editingIndex = 0
  THEN KeyWizardSaveName(w, ev)
  ELSE IF w.m.wizardStep = "wizardTeamID" /\ w.m.editingIndex = 0
  THEN KeyWizardTeamID(w, ev)
  ELSE KeyWizardIdle(w, ev)

(***************************************************************************)
(* Keys on the manage profiles screen.                                     *)
(***************************************************************************)
\* load the default profile into activeProfile, as the loops over m.profiles do
AdoptDefault(mm) ==
  IF FirstDefault(mm.profiles) # <<>>
  THEN [mm EXCEPT !.activeProfile = FirstDefault(mm.profiles),
                  !.profileStatus = ProfileStatus(FirstDefault(mm.profiles)[1].Name)]
  ELSE mm

\* a delete that leaves the default of the store as it finds it
ConfirmDeleteNoDefault(w, ev) ==
  LET del == deleteProfile(w.disk, w.m.deleteProfileName)
      ok == del.ok /\ ev.removeOk
      wasActive == w.m.activeProfile # <<>>
                   /\ w.m.activeProfile[1].Name = w.m.deleteProfileName
      m1 == [w.m EXCEPT !.showDeleteConfirm = FALSE, !.deleteProfileName = ""]
  IN IF ok
     THEN Ret(IF wasActive
              THEN [m1 EXCEPT !.profiles = del.disk, !.activeProfile = <<>>,
                              !.profileStatus = NoProfileStatus]
              ELSE [m1 EXCEPT !.profiles = del.disk],
              del.disk, w.cfg, <<>>)
     ELSE Ret(m1, w.disk, w.cfg, <<>>)

\* y on the delete confirmation
ConfirmDelete(w, ev) ==
  LET mm == w.m
      del == deleteProfile(w.disk, mm.deleteProfileName)
      ok == del.ok /\ ev.removeOk
      d1 == IF ok THEN del.disk ELSE w.disk
      m1 == [mm EXCEPT !.profiles = loadAllProfiles(d1)]
      wasActive == mm.activeProfile # <<>>
                   /\ mm.activeProfile[1].Name = mm.deleteProfileName
      d2 == IF wasActive /\ Len(m1.profiles) > 0
            THEN setDefaultProfile(d1, m1.profiles[1].Name) ELSE d1
      m2 == IF wasActive
            THEN AdoptDefault([m1 EXCEPT !.activeProfile = <<>>,
                                         !.profileStatus = NoProfileStatus,
                                         !.profiles = loadAllProfiles(d2)])
            ELSE m1
      m3 == IF m2.listCursor > Len(m2.profiles)
            THEN [m2 EXCEPT !.listCursor = Len(m2.profiles)] ELSE m2
  IN IF ok
     THEN Ret([m3 EXCEPT !.showDeleteConfirm = FALSE, !.deleteProfileName = ""],
              d2, w.cfg, <<>>)
     ELSE Ret([mm EXCEPT !.showDeleteConfirm = FALSE, !.deleteProfileName = ""],
              w.disk, w.cfg, <<>>)

\* a confirmation on which every key that is not n or esc confirms
KeyDeleteConfirmDefaultYes(w, ev) ==
  CASE ev.key \in {"n", "esc"} ->
         Ret([w.m EXCEPT !.showDeleteConfirm = FALSE, !.deleteProfileName = ""],
             w.disk, w.cfg, <<>>)
    [] OTHER -> ConfirmDelete(w, ev)

KeyDeleteConfirm(w, ev) ==
  CASE ev.key = "y" -> ConfirmDelete(w, ev)
    [] ev.key \in {"n", "esc"} ->
         Ret([w.m EXCEPT !.showDeleteConfirm = FALSE, !.deleteProfileName = ""],
             w.disk, w.cfg, <<>>)
    [] OTHER -> Keep(w)

\* backspace on the list that removes the profile at once, asking nothing
ManageBackspaceNoConfirm(w) ==
  LET mm == w.m
      onProfile == mm.listCursor > 0 /\ mm.listCursor <= Len(mm.profiles)
      d1 == IF onProfile THEN deleteProfile(w.disk, mm.profiles[mm.listCursor].Name).disk
            ELSE w.disk
  IN Ret([mm EXCEPT !.profiles = loadAllProfiles(d1)], d1, w.cfg, <<>>)

\* backspace on the list: ask before deleting the profile under the cursor
ManageBackspace(w) ==
  LET mm == w.m
      onProfile == mm.listCursor > 0 /\ mm.listCursor <= Len(mm.profiles)
  IN Ret(IF onProfile
         THEN [mm EXCEPT !.deleteProfileName = mm.profiles[mm.listCursor].Name,
                         !.showDeleteConfirm = TRUE]
         ELSE mm,
         w.disk, w.cfg, <<>>)

KeyManageList(w, ev) ==
  LET mm == w.m
      n == Len(mm.profiles)
      onProfile == mm.listCursor > 0 /\ mm.listCursor <= n
  IN CASE ev.key = "esc" -> Ret(ToMainMenu(mm), w.disk, w.cfg, <<>>)
       [] ev.key = "up" ->
            Ret(IF mm.listCursor > 0 THEN [mm EXCEPT !.listCursor = @ - 1] ELSE mm,
                w.disk, w.cfg, <<>>)
       [] ev.key = "down" ->
            Ret(IF mm.listCursor < 1 + n THEN [mm EXCEPT !.listCursor = @ + 1] ELSE mm,
                w.disk, w.cfg, <<>>)
       [] ev.key = "backspace" -> ManageBackspace(w)
       [] ev.key = "d" ->
            IF onProfile
            THEN LET d1 == setDefaultProfile(w.disk, mm.profiles[mm.listCursor].Name)
                 IN Ret(AdoptDefault([mm EXCEPT !.profiles = loadAllProfiles(d1)]),
                        d1, w.cfg, <<>>)
            ELSE Keep(w)
       [] ev.key = "enter" ->
            IF mm.listCursor = 0
            THEN Ret([mm EXCEPT !.currentScreen = "profileWizardScreen",
                                !.wizardStep = "wizardTeamID",
                                !.wizardTeamID = mm.teamID,
                                !.wizardSelectedProj = {},
                                !.wizardProfileName = "",
                                !.wizardEditMode = FALSE,
                                !.loadingState = "notLoading",
                                !.loadingError = "",
                                !.loadingProgress = <<>>,
                                !.listCursor = 0],
                     w.disk, w.cfg, <<>>)
            ELSE IF mm.listCursor = 1 + n
            THEN Ret(ToMainMenu(mm), w.disk, w.cfg, <<>>)
            ELSE IF onProfile
            THEN Ret([mm EXCEPT !.previewProfile = <<mm.profiles[mm.listCursor]>>,
                                !.currentScreen = "profilePreviewScreen"],
                     w.disk, w.cfg, <<>>)
            ELSE Keep(w)
       [] OTHER -> Keep(w)

KeyManageProfiles(w, ev) ==
  IF w.m.showDeleteConfirm THEN KeyDeleteConfirm(w, ev) ELSE KeyManageList(w, ev)

(***************************************************************************)
(* Keys on the setup screen.                                               *)
(***************************************************************************)
KeySetupEditing(w, ev) ==
  CASE ev.key = "esc" ->
         Ret([w.m EXCEPT !.textInput = "", !.editingIndex = -1],
             w.disk, w.cfg, <<>>)
    [] ev.key = "enter" ->
         LET value == w.m.textInput
             set == CASE w.m.editingIndex = 0 -> [w.m EXCEPT !.figmaToken = value]
                      [] w.m.editingIndex = 1 -> [w.m EXCEPT !.userID = value]
                      [] OTHER -> [w.m EXCEPT !.teamID = value]
             mm == [set EXCEPT !.textInput = "", !.editingIndex = -1]
         IN Ret(mm, w.disk, saveCurrentConfig(mm, w.cfg, ev), <<>>)
    [] OTHER -> TextInputUpdate(w, ev)

\* enter on a row of the setup screen
SetupEnter(w) ==
  LET mm == w.m
  IN CASE mm.setupIndex = 0 ->
            Ret([mm EXCEPT !.editingIndex = 0, !.textInput = mm.figmaToken],
                w.disk, w.cfg, <<>>)
       [] mm.setupIndex = 1 ->
            Ret([mm EXCEPT !.fetchingUser = TRUE, !.userFetchError = ""],
                w.disk, w.cfg, <<fetchUserInfo(mm.figmaToken)>>)
       [] mm.setupIndex = 2 ->
            Ret([mm EXCEPT !.editingIndex = 2, !.textInput = mm.teamID],
                w.disk, w.cfg, <<>>)
       [] mm.setupIndex = 3 -> Ret(ToMainMenu(mm), w.disk, w.cfg, <<>>)
       [] OTHER -> Keep(w)

\* number of rows the setup cursor can reach (indices 0..4)
SetupLast == 4

KeySetupIdle(w, ev) ==
  LET mm == w.m
  IN CASE ev.key = "esc" -> Ret(ToMainMenu(mm), w.disk, w.cfg, <<>>)
       [] ev.key = "up" ->
            Ret(IF mm.setupIndex > 0 THEN [mm EXCEPT !.setupIndex = @ - 1] ELSE mm,
                w.disk, w.cfg, <<>>)
       [] ev.key = "down" ->
            Ret(IF mm.setupIndex < SetupLast
                THEN [mm EXCEPT !.setupIndex = @ + 1] ELSE mm,
                w.disk, w.cfg, <<>>)
       [] ev.key = "enter" -> SetupEnter(w)
       [] OTHER -> Keep(w)

KeySetup(w, ev) ==
  IF w.m.editingIndex >= 0 /\ w.m.editingIndex < 3
  THEN KeySetupEditing(w, ev)
  ELSE KeySetupIdle(w, ev)

(***************************************************************************)
(* Keys on the main menu.                                                  *)
(***************************************************************************)
\* the title of the menu item at a (0-based) index
TitleAt(items, i) == items[i + 1].title

\* up: one step, and one more over an empty item unless that lands on index 0
MenuUp(items, i) ==
  IF i > 0
  THEN IF TitleAt(items, i - 1) = <<>> /\ i - 1 > 0 THEN i - 2 ELSE i - 1
  ELSE i

\* down: one step, and one more over an empty item unless it is the last
MenuDown(items, i) ==
  IF i < Len(items) - 1
  THEN IF TitleAt(items, i + 1) = <<>> /\ i + 1 < Len(items) - 1 THEN i + 2 ELSE i + 1
  ELSE i

\* enter on a "  - <name>" entry: the profile becomes the default and the
\* whole model is rebuilt from the store
MenuSelectProfile(w, title) ==
  LET profileName == title[2]
      d1 == setDefaultProfile(w.disk, profileName)
  IN Ret(initialModel(d1, w.cfg), d1, w.cfg, <<>>)

MenuEnter(w) ==
  LET mm == w.m
      selectedTitle == TitleAt(mm.menuItems, mm.selectedIndex)
      active == IF mm.activeProfile = <<>> THEN {}
                ELSE {i \in 1..Len(mm.profiles) :
                        mm.profiles[i].Name = mm.activeProfile[1].Name}
  IN CASE selectedTitle = <<"Generate Activity Report">> ->
            Ret([mm EXCEPT !.currentScreen = "reportConfigScreen",
                           !.reportTimeIndex = 0,
                           !.reportProfileIndex =
                               IF active = {} THEN 0
                               ELSE (CHOOSE i \in active : \A j \in active : i <= j) - 1],
                w.disk, w.cfg, <<>>)
       [] selectedTitle = <<"Setup">> ->
            Ret([mm EXCEPT !.currentScreen = "setupScreen", !.setupIndex = 0],
                w.disk, w.cfg, <<>>)
       [] selectedTitle = <<"Exit">> -> Ret(mm, w.disk, w.cfg, <<Quit>>)
       [] selectedTitle = <<"Manage Profiles">> ->
            Ret([mm EXCEPT !.currentScreen = "manageProfilesScreen", !.listCursor = 0],
                w.disk, w.cfg, <<>>)
       [] Len(selectedTitle) >= 2 /\ selectedTitle[1] = "  - " ->
            MenuSelectProfile(w, selectedTitle)
       [] OTHER -> Keep(w)

KeyMainMenu(w, ev) ==
  LET mm == w.m
  IN CASE ev.key = "esc" -> Ret([mm EXCEPT !.selectedIndex = 1], w.disk, w.cfg, <<>>)
       [] ev.key = "up" ->
            Ret([mm EXCEPT !.selectedIndex = MenuUp(mm.menuItems, @)],
                w.disk, w.cfg, <<>>)
       [] ev.key = "down" ->
            Ret([mm EXCEPT !.selectedIndex = MenuDown(mm.menuItems, @)],
                w.disk, w.cfg, <<>>)
       [] ev.key = "enter" -> MenuEnter(w)
       [] OTHER -> Keep(w)

(***************************************************************************)
(* Update on a key: the handler of the current screen.                     *)
(***************************************************************************)
UpdateKey(w, ev) ==
  CASE w.m.currentScreen = "reportConfigScreen" -> KeyReportConfig(w, ev)
    [] w.m.currentScreen \in {"reportGeneratingScreen", "reportViewScreen"} ->
         KeyReportView(w, ev)
    [] w.m.currentScreen = "profilePreviewScreen" -> KeyProfilePreview(w, ev)
    [] w.m.currentScreen = "profileWizardScreen" -> KeyProfileWizard(w, ev)
    [] w.m.currentScreen = "manageProfilesScreen" -> KeyManageProfiles(w, ev)
    [] w.m.currentScreen = "setupScreen" -> KeySetup(w, ev)
    [] w.m.currentScreen = "mainMenuScreen" -> KeyMainMenu(w, ev)
    [] OTHER -> Keep(w)

(***************************************************************************)
(* Time.  A time.Time is the number of seconds since the first instant of  *)
(* the year before FirstYear, in the zone of the process (a zone without   *)
(* daylight-saving shifts); ZeroTime stands for the zero time.Time, which  *)
(* is before every instant of the model.                                   *)
(***************************************************************************)
ZeroTime == -1

SecondsPerDay == 86400

EpochYear == FirstYear - 1

ModelYears == EpochYear..(FirstYear + MaxYears)

IsLeap(y) == (y % 4 = 0 /\ y % 100 # 0) \/ y % 400 = 0

DaysInMonth(y, mo) ==
  IF mo = 2 THEN (IF IsLeap(y) THEN 29 ELSE 28)
  ELSE IF mo \in {4, 6, 9, 11} THEN 30 ELSE 31

DaysInYear(y) == IF IsLeap(y) THEN 366 ELSE 365

\* the leap years before year y, and the days from the first day of
\* EpochYear to the first day of year y
LeapsBefore(y) == ((y - 1) \div 4) - ((y - 1) \div 100) + ((y - 1) \div 400)

DaysBeforeYear(y) == 365 * (y - EpochYear) + LeapsBefore(y) - LeapsBefore(EpochYear)

\* the days of a common year before each month
DaysBefore == <<0, 31, 59, 90, 120, 151, 181, 212, 243, 273, 304, 334>>

DaysBeforeMonth(y, mo) == DaysBefore[mo] + (IF mo > 2 /\ IsLeap(y) THEN 1 ELSE 0)

\* time.Date: the month is normalised into 1..12 by carrying into the year,
\* then days and seconds are added, so that a day or a second out of range
\* carries too
Date(y, mo, d, sec) ==
  LET yy == y + ((mo - 1) \div 12)
      mm == ((mo - 1) % 12) + 1
  IN (DaysBeforeYear(yy) + DaysBeforeMonth(yy, mm) + d - 1) * SecondsPerDay + sec

\* t.Year(), t.Month(), t.Day() and the clock of t
YearOf(t) == CHOOSE y \in ModelYears : Date(y, 1, 1, 0) <= t /\ t < Date(y + 1, 1, 1, 0)

MonthOf(t) ==
  CHOOSE mo \in 1..12 :
    \E y \in {YearOf(t)} : Date(y, mo, 1, 0) <= t /\ t < Date(y, mo + 1, 1, 0)

DayOf(t) == ((t - Date(YearOf(t), MonthOf(t), 1, 0)) \div SecondsPerDay) + 1

ClockOf(t) == t % SecondsPerDay

\* t.AddDate(years, months, days)
AddDate(t, years, months, days) ==
  Date(YearOf(t) + years, MonthOf(t) + months, DayOf(t) + days, ClockOf(t))

\* t.Add(d), d in seconds
Add(t, d) == t + d

After(t, u) == t > u

Before(t, u) == t < u

IsZero(t) == t = ZeroTime

\* t.Format("2006-01-02")
FormatDate(t) == <<YearOf(t), "-", MonthOf(t), "-", DayOf(t)>>

(***************************************************************************)
(* The event loop: one transition per key or delivered result.             *)
(***************************************************************************)
Keys == {"esc", "up", "down", "left", "right", "enter", " ", "backspace",
         "d", "e", "y", "n", "x"}

World == [m |-> m, disk |-> disk, cfg |-> cfgFile]

\* the commands of a batch that run as goroutines (tea.Quit ends the program)
Spawned(cmds) == SelectSeq(cmds, LAMBDA c : c.type # "quit")

RECURSIVE BagOfSeq(_)
BagOfSeq(cmds) ==
  IF cmds = <<>> THEN EmptyBag ELSE SetToBag({Head(cmds)}) (+) BagOfSeq(Tail(cmds))

\* the clock is read by the commit of a new profile
ClockAfter(r) ==
  IF \E i \in 1..Len(r.disk) : r.disk[i].CreatedAt = now THEN now + 1 ELSE now

\* the transition: the result r of Update, after the commands in done ended
Apply(r, done) ==
  /\ BagCardinality((inflight (-) done) (+) BagOfSeq(Spawned(r.cmds))) <= MaxInFlight
  /\ ClockAfter(r) <= MaxClock + 1
  /\ budget # 0
  /\ budget' = IF budget > 0 THEN budget - 1 ELSE budget
  /\ m' = r.m
  /\ disk' = r.disk
  /\ cfgFile' = r.cfg
  /\ cmd' = r.cmds
  /\ inflight' = (inflight (-) done) (+) BagOfSeq(Spawned(r.cmds))
  /\ now' = ClockAfter(r)
  /\ halted' = IF r.halt THEN "panic"
               ELSE IF \E i \in 1..Len(r.cmds) : r.cmds[i].type = "quit" THEN "quit"
               ELSE ""
  /\ UNCHANGED <<fmtReport, fmtOut1, fmtOut2, genIn, genWindow, genOut>>

\* the outcomes of the file-system calls a key can lead to
IOChoices(key) ==
  IF key \in {"enter", "y"}
     /\ m.currentScreen \in {"profileWizardScreen", "manageProfilesScreen",
                            "setupScreen"}
  THEN BOOLEAN ELSE {TRUE}

Event(key, text, writeOk, removeOk) ==
  [key |-> key, text |-> text, writeOk |-> writeOk, removeOk |-> removeOk, now |-> now]

\* an event whose file-system calls succeed
OkEvent(key) == Event(key, "", TRUE, TRUE)

\* a key pressed while the given screen is current
Press(screens) ==
  /\ halted = ""
  /\ m.currentScreen \in screens
  /\ \E key \in Keys : \E writeOk \in IOChoices(key) : \E removeOk \in IOChoices(key) :
       Apply(UpdateKey(World, Event(key, "", writeOk, removeOk)), EmptyBag)

KeyOnMainMenu == Press({"mainMenuScreen"})

KeyOnSetup == Press({"setupScreen"})

KeyOnManageProfiles == Press({"manageProfilesScreen"})

KeyOnProfilePreview == Press({"profilePreviewScreen"})

KeyOnProfileWizard == Press({"profileWizardScreen"})

KeyOnReportConfig == Press({"reportConfigScreen"})

KeyOnReportView == Press({"reportGeneratingScreen", "reportViewScreen"})

\* the texts the user can type into the field being edited
TextsFor(mm) ==
  CASE mm.currentScreen = "profileWizardScreen" /\ mm.editingIndex = 0
         /\ mm.wizardStep = "wizardSaveName" -> NameTexts
    [] mm.currentScreen = "profileWizardScreen" /\ mm.editingIndex = 0
         /\ mm.wizardStep = "wizardTeamID" -> TeamTexts
    [] mm.currentScreen = "setupScreen" /\ mm.editingIndex = 0 -> SetupTexts
    [] mm.currentScreen = "setupScreen" /\ mm.editingIndex \in {1, 2} -> TeamTexts
    [] OTHER -> {}

\* keys typed into the text input
TypeText ==
  /\ halted = ""
  /\ \E text \in TextsFor(m) :
       Apply(UpdateKey(World, Event("type", text, TRUE, TRUE)), EmptyBag)

InFlight(type) == {c \in BagToSet(inflight) : c.type = type}

\* the results the current-user endpoint can give
UserInfoResults(c) ==
  IF c.token = "" THEN {[ok |-> FALSE, err |-> "No Figma token set"]}
  ELSE {[ok |-> TRUE, id |-> "u1", handle |-> "h1", email |-> "e1"],
        [ok |-> FALSE, err |-> "API error"]}

DeliverUserInfo ==
  /\ halted = ""
  /\ \E c \in InFlight("fetchUserInfo") : \E res \in UserInfoResults(c) :
       \E writeOk \in BOOLEAN :
         Apply(IF res.ok
               THEN OnUserInfoMsg(World, res, Event("", "", writeOk, TRUE))
               ELSE OnUserInfoErrMsg(World, res),
               SetToBag({c}))

\* the results the team-projects endpoint can give
ProjectsResults(c) ==
  IF c.token = "" THEN {[ok |-> FALSE, err |-> "No Figma token set"]}
  ELSE IF c.teamID = "" THEN {[ok |-> FALSE, err |-> "No team ID set"]}
  ELSE {[ok |-> TRUE, projects |-> ps, count |-> Len(ps)] : ps \in ProjectLists}
       \cup {[ok |-> FALSE, err |-> "API error"]}

DeliverProjects ==
  /\ halted = ""
  /\ \E c \in InFlight("fetchProjects") : \E res \in ProjectsResults(c) :
       Apply(IF res.ok THEN OnProjectsCompleteMsg(World, res)
             ELSE OnProjectsErrMsg(World, res),
             SetToBag({c}))

\* the result of a report run: the report of the run's profile and time mode
ReportResult(c) ==
  IF c.profile = <<>> THEN [ok |-> FALSE, err |-> "No profile selected"]
  ELSE [ok |-> TRUE,
        report |-> [Profile |-> c.profile[1].Name, TimeMode |-> c.config.TimeMode],
        content |-> <<"report", c.profile[1].Name, c.config.TimeMode>>]

DeliverReport ==
  /\ halted = ""
  /\ \E c \in InFlight("generateReport") :
       Apply(IF ReportResult(c).ok THEN OnReportGeneratedMsg(World, ReportResult(c))
             ELSE OnReportErrMsg(World, ReportResult(c)),
             SetToBag({c}))

\* an export that does not look at the outcome of the write
exportReportRunUnchecked(c, t, mkdirOk, writeOk) ==
  [ok |-> TRUE, filepath |-> <<"reports", "/", c.profileName, "-">> \o FormatDate(t) \o <<".md">>,
   written |-> <<[path |-> <<"reports", "/", c.profileName, "-">> \o FormatDate(t) \o <<".md">>,
                  content |-> c.content]>>]

\* the run of an export command at instant t: the message it returns and the
\* file it wrote
exportReportRun(c, t, mkdirOk, writeOk) ==
  LET profileName == IF c.profileName = "" THEN "default" ELSE c.profileName
      filename == <<profileName, "-">> \o FormatDate(t) \o <<".md">>
      filepath == <<"reports", "/">> \o filename
  IN IF ~mkdirOk
     THEN [ok |-> FALSE, err |-> "Failed to create reports directory", written |-> <<>>]
     ELSE IF ~writeOk
     THEN [ok |-> FALSE, err |-> "Failed to write report", written |-> <<>>]
     ELSE [ok |-> TRUE, filepath |-> filepath,
           written |-> <<[path |-> filepath, content |-> c.content]>>]

DeliverExport ==
  /\ halted = ""
  /\ \E c \in InFlight("exportReport") : \E mkdirOk, writeOk \in BOOLEAN :
       LET run == exportReportRun(c, now, mkdirOk, writeOk)
       IN Apply(IF run.ok
                THEN OnReportExportedMsg(World, [filepath |-> run.filepath])
                ELSE OnReportExportErrMsg(World, [err |-> run.err]),
                SetToBag({c}))

DeliverTick ==
  /\ halted = ""
  /\ \E c \in InFlight("tick") : Apply(OnTickMsg(World), SetToBag({c}))

(***************************************************************************)
(* Initial states: the program starts on a store left by earlier runs.     *)
(***************************************************************************)
ProfileA ==
  [Name |-> "a", TeamID |-> "t1", SelectedProjects |-> <<P1>>,
   CreatedAt |-> 0, IsDefault |-> TRUE]

ProfileB ==
  [Name |-> "b", TeamID |-> "t1", SelectedProjects |-> <<P1, P2>>,
   CreatedAt |-> -1, IsDefault |-> FALSE]

InitialDisks == {<<>>, <<ProfileA>>, <<ProfileA, ProfileB>>}

InitialConfigs ==
  {[FigmaToken |-> "k", UserID |-> "", TeamID |-> "t1",
    UserHandle |-> "", UserEmail |-> ""]}

\* budget counts the events left to a bounded session; -1 is no bound
SessionInit ==
  /\ disk \in InitialDisks
  /\ cfgFile \in InitialConfigs
  /\ m = initialModel(disk, cfgFile)
  /\ cmd = <<>>
  /\ inflight = EmptyBag
  /\ now = 1
  /\ halted = ""
  /\ fmtReport = <<>>
  /\ fmtOut1 = <<>>
  /\ fmtOut2 = <<>>
  /\ genIn = <<>>
  /\ genWindow = <<>>
  /\ genOut = <<>>

\* the whole session
Next ==
  \/ KeyOnMainMenu
  \/ KeyOnSetup
  \/ KeyOnManageProfiles
  \/ KeyOnProfilePreview
  \/ KeyOnProfileWizard
  \/ KeyOnReportConfig
  \/ KeyOnReportView
  \/ TypeText
  \/ DeliverUserInfo
  \/ DeliverProjects
  \/ DeliverReport
  \/ DeliverExport
  \/ DeliverTick

\* every session of at most MaxSteps events, over all screens
Init ==
  /\ SessionInit
  /\ budget = MaxSteps

Spec == Init /\ [][Next]_vars

\* sessions that stay on the main menu and the profile screens
NextProfiles ==
  \/ KeyOnMainMenu
  \/ KeyOnManageProfiles
  \/ KeyOnProfilePreview
  \/ KeyOnProfileWizard
  \/ TypeText
  \/ DeliverProjects

InitProfiles ==
  /\ SessionInit
  /\ budget = ProfileSteps

SpecProfiles == InitProfiles /\ [][NextProfiles]_vars

\* profile sessions long enough to run the wizard twice
InitWizard ==
  /\ SessionInit
  /\ budget = WizardSteps

SpecWizard == InitWizard /\ [][NextProfiles]_vars

\* enter and esc on the main menu and the report screens
StartOrLeaveReport ==
  /\ halted = ""
  /\ m.currentScreen \in {"mainMenuScreen", "reportConfigScreen",
                          "reportGeneratingScreen", "reportViewScreen"}
  /\ \E key \in {"enter", "esc"} : Apply(UpdateKey(World, OkEvent(key)), EmptyBag)

\* sessions that start and leave report runs while the spinner ticks
NextTick ==
  \/ StartOrLeaveReport
  \/ DeliverReport
  \/ DeliverExport
  \/ DeliverTick

InitTick ==
  /\ SessionInit
  /\ budget = -1

\* tea.Tick delivers its message after 100 ms: a pending tick is delivered
SpecTick == InitTick /\ [][NextTick]_vars /\ WF_vars(DeliverTick)

\* the keys that delete a profile, select a menu entry and run a report
StatusKeys == {"enter", "esc", "down", "backspace", "y"}

DeleteSelectOrReport ==
  /\ halted = ""
  /\ m.currentScreen \in {"mainMenuScreen", "manageProfilesScreen", "reportConfigScreen",
                          "reportGeneratingScreen", "reportViewScreen"}
  /\ \E key \in StatusKeys : Apply(UpdateKey(World, OkEvent(key)), EmptyBag)

\* sessions that delete profiles, select menu entries and run reports
NextStatus ==
  \/ DeleteSelectOrReport
  \/ DeliverReport
  \/ DeliverExport
  \/ DeliverTick

InitStatus ==
  /\ SessionInit
  /\ budget = StatusSteps

SpecStatus == InitStatus /\ [][NextStatus]_vars

\* the keys that edit a profile and make a profile the default
RenameKeys == {"down", "enter", "esc", "e", "d"}

EditOrMakeDefault ==
  /\ halted = ""
  /\ m.currentScreen \in {"mainMenuScreen", "manageProfilesScreen",
                          "profilePreviewScreen", "profileWizardScreen"}
  /\ \E key \in RenameKeys : \E writeOk \in IOChoices(key) :
       Apply(UpdateKey(World, Event(key, "", writeOk, TRUE)), EmptyBag)

\* sessions that edit profiles, one after the other, and make one the default
NextRename ==
  \/ EditOrMakeDefault
  \/ TypeText

InitRename ==
  /\ SessionInit
  /\ budget = -1

SpecRename == InitRename /\ [][NextRename]_vars

\* a team with many projects: the identifiers of its projects
ProjectIDs ==
  <<"p1", "p2", "p3", "p4", "p5", "p6", "p7", "p8", "p9", "p10", "p11", "p12",
    "p13", "p14">>

ManyProjects(n) == [i \in 1..n |-> [ID |-> ProjectIDs[i], Name |-> ProjectIDs[i]]]

\* the team-projects endpoint answers with one page of projects or more
DeliverManyProjects ==
  /\ halted = ""
  /\ \E c \in InFlight("fetchProjects") : \E n \in {PageSize, MaxProjects} :
       /\ c.token # ""
       /\ c.teamID # ""
       /\ Apply(OnProjectsCompleteMsg(World, [ok |-> TRUE,
                                               projects |-> ManyProjects(n),
                                               count |-> n]),
                SetToBag({c}))

\* the keys that walk the menus and the lists
NavKeys == {"up", "down", "enter", "esc"}

\* a navigation key on the way to the project list and on it
WalkList ==
  /\ halted = ""
  /\ m.currentScreen \in {"mainMenuScreen", "manageProfilesScreen",
                          "profileWizardScreen"}
  /\ \E key \in NavKeys : Apply(UpdateKey(World, OkEvent(key)), EmptyBag)

\* sessions that walk the project list of a large team
NextList ==
  \/ WalkList
  \/ DeliverProjects
  \/ DeliverManyProjects

InitList ==
  /\ SessionInit
  /\ budget = -1

SpecList == InitList /\ [][NextList]_vars

\* sessions that stay on the main menu and the report screens
NextReport ==
  \/ KeyOnMainMenu
  \/ KeyOnReportConfig
  \/ KeyOnReportView
  \/ DeliverReport
  \/ DeliverExport
  \/ DeliverTick

InitReport ==
  /\ SessionInit
  /\ budget = -1

SpecReport == InitReport /\ [][NextReport]_vars

\* sessions that stay on the main menu and the setup screen
NextSetup ==
  \/ KeyOnMainMenu
  \/ KeyOnSetup
  \/ TypeText
  \/ DeliverUserInfo

InitSetup ==
  /\ SessionInit
  /\ budget = -1

SpecSetup == InitSetup /\ [][NextSetup]_vars

(***************************************************************************)
(* resolveTimeWindow.                                                      *)
(***************************************************************************)
\* a rolling window with its two ends exchanged
RollingWindowBackwards(t, days) == [Start |-> t, End |-> AddDate(t, 0, 0, -days)]

\* the last given number of days, ending now
RollingWindow(t, days) == [Start |-> AddDate(t, 0, 0, -days), End |-> t]

\* one month back from now, to now
LastMonthWindowFromNow(t) == [Start |-> AddDate(t, 0, -1, 0), End |-> t]

\* the previous calendar month
LastMonthWindow(t) ==
  LET firstOfThisMonth == Date(YearOf(t), MonthOf(t), 1, 0)
      firstOfLastMonth == AddDate(firstOfThisMonth, 0, -1, 0)
  IN [Start |-> firstOfLastMonth, End |-> Add(firstOfThisMonth, -1)]

ThisMonthToDate(t) == [Start |-> Date(YearOf(t), MonthOf(t), 1, 0), End |-> t]

resolveTimeWindow(config, t) ==
  CASE config.TimeMode = "last_week" -> RollingWindow(t, 7)
    [] config.TimeMode = "last_month" -> LastMonthWindow(t)
    [] config.TimeMode = "this_month_to_date" -> ThisMonthToDate(t)
    [] config.TimeMode = "last_4_weeks" -> RollingWindow(t, 28)
    [] config.TimeMode = "last_30_days" -> RollingWindow(t, 30)
    [] OTHER -> [Start |-> ZeroTime, End |-> ZeroTime]

ReportConfigs == {[TimeMode |-> TimeModes[i]] : i \in 1..Len(TimeModes)}

\* the instants a window is resolved at: the days 1, 15 and 28 to 31 of every
\* month (a day past the end of a month is a day of the next, as time.Date
\* normalises it), at the first, the middle and the last second of the day
WindowNows ==
  {Date(y, mo, d, sec) :
     y \in FirstYear..(FirstYear + MaxYears - 1), mo \in 1..12,
     d \in {1, 15, 28, 29, 30, 31}, sec \in {0, 43200, 86399}}

WindowInit ==
  /\ genIn \in [now : WindowNows, config : ReportConfigs]
  /\ genWindow = <<>>
  /\ genOut = <<>>
  /\ fmtReport = <<>>
  /\ fmtOut1 = <<>>
  /\ fmtOut2 = <<>>
  /\ disk = <<>>
  /\ cfgFile \in InitialConfigs
  /\ m = initialModel(disk, cfgFile)
  /\ cmd = <<>>
  /\ inflight = EmptyBag
  /\ now = 1
  /\ halted = ""
  /\ budget = -1

ResolveWindow ==
  /\ genWindow = <<>>
  /\ genWindow' = <<resolveTimeWindow(genIn.config, genIn.now)>>
  /\ UNCHANGED <<m, disk, cfgFile, cmd, inflight, now, halted, budget,
                 fmtReport, fmtOut1, fmtOut2, genIn, genOut>>

SpecWindow == WindowInit /\ [][ResolveWindow]_vars

(***************************************************************************)
(* formatReportMarkdown.  The text is the sequence of its lines.  The      *)
(* files are grouped in a Go map keyed by project name and the sections    *)
(* are written by ranging over that map: the order of a range over a map   *)
(* is unspecified and may differ from one range to the next, so the order  *)
(* is an input (a permutation of the keys) the formatter does not control. *)
(***************************************************************************)
\* the key a file is grouped under
GroupOf(file) == IF file.ProjectName = "" THEN "Unknown Project" ELSE file.ProjectName

\* projectFiles[name]: the files of a group, in the order of report.Files
GroupFiles(files, name) == SelectSeq(files, LAMBDA f : GroupOf(f) = name)

GroupKeys(files) == {GroupOf(files[i]) : i \in 1..Len(files)}

\* the orders a range over the map can take
MapOrders(keys) ==
  {o \in [1..Cardinality(keys) -> keys] :
     \A i, j \in 1..Cardinality(keys) : i # j => o[i] # o[j]}

FileLine(file) ==
  <<"- ", file.FileName, "https://www.figma.com/file/", file.FileKey,
    IF file.CreatedInWindow THEN "Created" ELSE "Modified">>

SectionLines(files, name) ==
  <<<<"">>, <<"### ", name>>, <<"">>>>
  \o [i \in 1..Len(GroupFiles(files, name)) |-> FileLine(GroupFiles(files, name)[i])]

RECURSIVE SectionsIn(_, _)
SectionsIn(files, order) ==
  IF order = <<>> THEN <<>>
  ELSE SectionLines(files, Head(order)) \o SectionsIn(files, Tail(order))

formatReportMarkdown(report, order) ==
  <<<<"# Status Report">>,
    <<"## From ", FormatDate(report.TimeWindow.Start),
      " to ", FormatDate(report.TimeWindow.End)>>,
    IF report.UserHandle # "" THEN <<"User: ", report.UserHandle>> ELSE <<"">>>>
  \o (IF report.UserHandle # "" THEN <<<<"">>>> ELSE <<>>)
  \o (IF Len(report.Files) = 0
      THEN <<<<"No file activity found in the selected time period.">>>>
      ELSE SectionsIn(report.Files, order))

(***************************************************************************)
(* Formatting one report twice.                                            *)
(***************************************************************************)
AllFileKeys == <<"f1", "f2", "f3", "f4", "f5">>

ProjectNames == {"", "Alpha", "Beta"}

\* the i-th file of a report: its project and whether it was created in the window
FileAt(i, project, created) ==
  [FileKey |-> AllFileKeys[i], FileName |-> AllFileKeys[i], ProjectName |-> project,
   MyChanges |-> ~created, CreatedInWindow |-> created]

FileLists ==
  UNION {{[i \in 1..n |-> FileAt(i, ps[i], cs[i])] :
            ps \in [1..n -> ProjectNames], cs \in [1..n -> BOOLEAN]} : n \in 0..MaxFiles}

Reports ==
  {[TimeWindow |-> LastMonthWindow(Date(FirstYear, 3, 15, 0)),
    UserHandle |-> h, Files |-> fs] : h \in {"", "h1"}, fs \in FileLists}

FormatInit ==
  /\ fmtReport \in Reports
  /\ fmtOut1 = <<>>
  /\ fmtOut2 = <<>>
  /\ disk = <<>>
  /\ cfgFile \in InitialConfigs
  /\ m = initialModel(disk, cfgFile)
  /\ cmd = <<>>
  /\ inflight = EmptyBag
  /\ now = 1
  /\ halted = ""
  /\ budget = -1
  /\ genIn = <<>>
  /\ genWindow = <<>>
  /\ genOut = <<>>

FormatFirst ==
  /\ fmtOut1 = <<>>
  /\ \E order \in MapOrders(GroupKeys(fmtReport.Files)) :
       fmtOut1' = formatReportMarkdown(fmtReport, order)
  /\ UNCHANGED <<m, disk, cfgFile, cmd, inflight, now, halted, budget, fmtReport, fmtOut2,
                 genIn, genWindow, genOut>>

FormatSecond ==
  /\ fmtOut1 # <<>>
  /\ fmtOut2 = <<>>
  /\ \E order \in MapOrders(GroupKeys(fmtReport.Files)) :
       fmtOut2' = formatReportMarkdown(fmtReport, order)
  /\ UNCHANGED <<m, disk, cfgFile, cmd, inflight, now, halted, budget, fmtReport, fmtOut1,
                 genIn, genWindow, genOut>>

NextFormat ==
  \/ FormatFirst
  \/ FormatSecond

SpecFormat == FormatInit /\ [][NextFormat]_vars

(***************************************************************************)
(* generateReport: the run of the command.  The gateway is an input: what  *)
(* each request is answered with.  An answer is <<>> when the request      *)
(* fails (no connection, or a status other than 200) and <<body>> when it  *)
(* succeeds; the gateway answers only requests that carry a token it       *)
(* accepts.                                                                *)
(***************************************************************************)
Respond(remote, token, answer) == IF token \in remote.tokens THEN answer ELSE <<>>

\* GET /v1/projects/:id/files, GET /v1/files/:key, GET /v1/files/:key/versions
ProjectFilesResp(remote, token, project) == Respond(remote, token, remote.projects[project.ID])

FileResp(remote, token, key) == Respond(remote, token, remote.files[key])

VersionsResp(remote, token, key) == Respond(remote, token, remote.versions[key])

\* a window test that takes the two ends of the window in
InWindowClosed(t, window) == t >= window.Start /\ t <= window.End

\* t.After(window.Start) && t.Before(window.End)
InWindow(t, window) == After(t, window.Start) /\ Before(t, window.End)

\* the entries a listed file adds to files: none or one
FileEntries(remote, token, window, project, fileInfo) ==
  LET fileResp == FileResp(remote, token, fileInfo.Key)
      versionsResp == VersionsResp(remote, token, fileInfo.Key)
  IN IF fileResp = <<>> \/ versionsResp = <<>> THEN <<>>
     ELSE LET fileData == fileResp[1]
              versions == versionsResp[1]
              createdAt == IF Len(versions) > 0 THEN versions[Len(versions)] ELSE ZeroTime
              createdInWindow == ~IsZero(createdAt) /\ InWindow(createdAt, window)
              myChanges == InWindow(fileData.LastModified, window)
          IN IF myChanges \/ createdInWindow
             THEN <<[FileKey |-> fileInfo.Key,
                     FileName |-> fileData.Name,
                     ProjectName |-> project.Name,
                     LastModified |-> fileData.LastModified,
                     CreatedAt |-> createdAt,
                     MyChanges |-> myChanges,
                     CreatedInWindow |-> createdInWindow]>>
             ELSE <<>>

\* a loop over the files of a project that ends at the first file whose
\* requests fail
RECURSIVE ProjectEntriesUntilFailure(_, _, _, _, _)
ProjectEntriesUntilFailure(remote, token, window, project, infos) ==
  IF infos = <<>> THEN <<>>
  ELSE IF FileResp(remote, token, Head(infos).Key) = <<>>
          \/ VersionsResp(remote, token, Head(infos).Key) = <<>>
  THEN <<>>
  ELSE FileEntries(remote, token, window, project, Head(infos))
       \o ProjectEntriesUntilFailure(remote, token, window, project, Tail(infos))

\* the loop over the files of a project
RECURSIVE ProjectEntries(_, _, _, _, _)
ProjectEntries(remote, token, window, project, infos) ==
  IF infos = <<>> THEN <<>>
  ELSE FileEntries(remote, token, window, project, Head(infos))
       \o ProjectEntries(remote, token, window, project, Tail(infos))

\* the loop over the selected projects of the profile
RECURSIVE AllEntries(_, _, _, _)
AllEntries(remote, token, window, projects) ==
  IF projects = <<>> THEN <<>>
  ELSE (IF ProjectFilesResp(remote, token, Head(projects)) = <<>> THEN <<>>
        ELSE ProjectEntries(remote, token, window, Head(projects),
                            ProjectFilesResp(remote, token, Head(projects))[1]))
       \o AllEntries(remote, token, window, Tail(projects))

\* a count of the changes that counts a file once for each of its two flags
TotalChangesPerFlag(files) ==
  Cardinality({i \in 1..Len(files) : files[i].MyChanges})
  + Cardinality({i \in 1..Len(files) : files[i].CreatedInWindow})

\* report.TotalChanges
TotalChangesOf(files) == Cardinality({i \in 1..Len(files) : files[i].MyChanges})

\* files, as the run of command c at instant t collects them
GeneratedFiles(c, remote, t) ==
  AllEntries(remote, c.token, resolveTimeWindow(c.config, t), c.profile[1].SelectedProjects)

\* report: the value generateReport builds from files
BuildReport(c, window, files, t) ==
  [TimeWindow |-> window,
   UserID |-> c.userID,
   UserHandle |-> c.userHandle,
   Files |-> files,
   TotalFiles |-> Len(files),
   TotalChanges |-> TotalChangesOf(files),
   GeneratedAt |-> t]

\* the message the run of command c ends with; order is the order in which
\* the formatter's map is ranged over (the report is bound as a value r, so
\* that it is computed once)
generateReportRun(c, remote, t, order) ==
  IF c.profile = <<>>
  THEN [ok |-> FALSE, err |-> "No profile selected"]
  ELSE CHOOSE msg \in
         {[ok |-> TRUE, report |-> r, content |-> formatReportMarkdown(r, order)] :
            r \in {BuildReport(c, resolveTimeWindow(c.config, t),
                               GeneratedFiles(c, remote, t), t)}} : TRUE

(***************************************************************************)
(* One run of generateReport against a gateway.                            *)
(***************************************************************************)
RemoteIndices == 1..MaxRemoteFiles

RemoteKeys == {AllFileKeys[i] : i \in RemoteIndices}

\* the project a remote file is in: the first two files are in one project,
\* the others in a second one
ProjectOfFile(i) == IF i <= 2 THEN P1 ELSE P2

\* the files of a project, as the gateway lists them
ListedFiles(project) ==
  SelectSeq([i \in RemoteIndices |-> [Key |-> AllFileKeys[i], Name |-> AllFileKeys[i], Index |-> i]],
            LAMBDA f : ProjectOfFile(f.Index) = project)

GenProfile ==
  [Name |-> "a", TeamID |-> "t1", SelectedProjects |-> <<P1, P2>>,
   CreatedAt |-> 0, IsDefault |-> TRUE]

GenNow == Date(FirstYear + 1, 3, 15, 43200)

\* the time stamps of the files: the two ends of the window and the second
\* after its start
Stamps(window) == {window.Start, window.Start + 1, window.End}

\* the version histories of the files, newest version first
VersionLists(window) == {<<>>, <<window.Start>>, <<window.End, window.Start + 1>>}

Remotes(window) ==
  [tokens : {{"k"}},
   projects : {ps \in [{P1.ID, P2.ID} -> {<<>>, <<ListedFiles(P1)>>, <<ListedFiles(P2)>>}] :
                 \A q \in {P1, P2} : ps[q.ID] \in {<<>>, <<ListedFiles(q)>>}},
   files : [RemoteKeys ->
              {<<>>} \cup {<<[Name |-> "n", LastModified |-> t]>> : t \in Stamps(window)}],
   versions : [RemoteKeys -> {<<>>} \cup {<<vs>> : vs \in VersionLists(window)}]]

\* a gateway that answers every request, with files modified in the window
RemoteUp(window) ==
  [tokens |-> {"k"},
   projects |-> [id \in {P1.ID, P2.ID} |->
                   IF id = P1.ID THEN <<ListedFiles(P1)>> ELSE <<ListedFiles(P2)>>],
   files |-> [k \in RemoteKeys |-> <<[Name |-> "n", LastModified |-> window.Start + 1]>>],
   versions |-> [k \in RemoteKeys |-> <<<<>>>>]]

GenCommand(token, config, profile) ==
  generateReport(token, "u1", "h1", "t1", config, profile)

\* the runs under a configuration: every gateway with the accepted token,
\* one gateway with the empty token, and one with no profile
GenInputs(config) ==
  {[now |-> GenNow, c |-> GenCommand("k", config, <<GenProfile>>), remote |-> r] :
     r \in Remotes(resolveTimeWindow(config, GenNow))}
  \cup {[now |-> GenNow, c |-> GenCommand("", config, <<GenProfile>>),
         remote |-> RemoteUp(resolveTimeWindow(config, GenNow))],
        [now |-> GenNow, c |-> GenCommand("k", config, <<>>),
         remote |-> RemoteUp(resolveTimeWindow(config, GenNow))]}

GenerateInit ==
  /\ \E config \in ReportConfigs : genIn \in GenInputs(config)
  /\ genWindow = <<>>
  /\ genOut = <<>>
  /\ fmtReport = <<>>
  /\ fmtOut1 = <<>>
  /\ fmtOut2 = <<>>
  /\ disk = <<>>
  /\ cfgFile \in InitialConfigs
  /\ m = initialModel(disk, cfgFile)
  /\ cmd = <<>>
  /\ inflight = EmptyBag
  /\ now = 1
  /\ halted = ""
  /\ budget = -1

RunGenerate ==
  /\ genOut = <<>>
  /\ \E order \in (IF genIn.c.profile = <<>> THEN {<<>>}
                   ELSE MapOrders(GroupKeys(GeneratedFiles(genIn.c, genIn.remote, genIn.now)))) :
       genOut' = <<generateReportRun(genIn.c, genIn.remote, genIn.now, order)>>
  /\ UNCHANGED <<m, disk, cfgFile, cmd, inflight, now, halted, budget,
                 fmtReport, fmtOut1, fmtOut2, genIn, genWindow>>

SpecGenerate == GenerateInit /\ [][RunGenerate]_vars

(***************************************************************************)
(* Properties.                                                             *)
(***************************************************************************)
\* the number of commands of a type in a bag of commands in flight
CountOf(b, type) ==
  LET S == {c \in BagToSet(b) : c.type = type}
  IN BagCardinality([c \in S |-> b[c]])

\* the names of the profiles that are in the store d1 and not in d2
Removed(d1, d2) == {d1[i].Name : i \in {j \in 1..Len(d1) : ~FileExists(d2, d1[j].Name)}}

DialogPending == m.currentScreen = "manageProfilesScreen" /\ m.showDeleteConfirm

\* C1: when the user has left the report-generating screen with esc (no
\* generation is in progress any more) and the result of the cancelled run is
\* delivered afterwards, the delivery is ignored: the current screen stays the
\* one the user is on.
C1_LateReportIgnored ==
  [][(~m.generatingReport
      /\ CountOf(inflight', "generateReport") < CountOf(inflight, "generateReport"))
     => m'.currentScreen = m.currentScreen]_vars

\* C2: while the project-discovery fetch is outstanding (loadingState =
\* loadingProjects) no event takes the wizard from Project-Selection forward to
\* Name-and-Save, and a key pressed then dispatches no command.
C2_NoAdvanceWhileLoading ==
  [][(m.currentScreen = "profileWizardScreen"
      /\ m.wizardStep = "wizardProjects"
      /\ m.loadingState = "loadingProjects")
     => /\ m'.wizardStep # "wizardSaveName"
        /\ (CountOf(inflight', "fetchProjects") <= CountOf(inflight, "fetchProjects"))]_vars

\* C3: a wizard commit removes a record of the store only when the record under
\* the name being saved has been written: if the write fails the old record is
\* still there.
C3_WriteBeforeDelete ==
  [][(m.currentScreen = "profileWizardScreen" /\ Removed(disk, disk') # {})
     => FileExists(disk', m.textInput)]_vars

\* C4: on the main menu the cursor never rests on an item with an empty title.
C4_CursorOnSelectable ==
  m.currentScreen = "mainMenuScreen" => TitleAt(m.menuItems, m.selectedIndex) # <<>>

\* C5 as claimed: while the delete confirmation is pending, every key other
\* than yes clears the pending flag and the target name and deletes nothing.
C5_AnyOtherKeyAborts ==
  DialogPending =>
    \A k \in Keys \ {"y"} :
      LET r == UpdateKey(World, OkEvent(k))
      IN /\ ~r.m.showDeleteConfirm
         /\ r.m.deleteProfileName = ""
         /\ r.disk = disk
         /\ r.m.currentScreen = "manageProfilesScreen"

\* C5 as amended: while the delete confirmation is pending, no key other than
\* yes deletes a profile or changes the profile list; n and esc clear the
\* pending flag and the target name and leave the user on the list; every
\* other key that is not yes is ignored and leaves the dialog pending as it was.
C5_NoAndEscAbort ==
  DialogPending =>
    \A k \in Keys \ {"y"} : \A writeOk, removeOk \in BOOLEAN :
      LET r == UpdateKey(World, Event(k, "", writeOk, removeOk))
      IN /\ r.disk = disk
         /\ r.m.profiles = m.profiles
         /\ r.cmds = <<>>
         /\ r.m.currentScreen = "manageProfilesScreen"
         /\ IF k \in {"n", "esc"}
            THEN r.m = [m EXCEPT !.showDeleteConfirm = FALSE, !.deleteProfileName = ""]
            ELSE r.m = m

\* C5 witness: the dialog is pending on a stored profile; n aborts it and
\* another key leaves it pending.
C5_Witness ==
  /\ DialogPending
  /\ FileExists(disk, m.deleteProfileName)
  /\ ~UpdateKey(World, OkEvent("n")).m.showDeleteConfirm
  /\ UpdateKey(World, OkEvent("x")).m.showDeleteConfirm

\* C6: on the manage-profiles and preview screens a key removes a profile from
\* the store only if the confirmation is pending and the key is yes, and then
\* the profile removed is the one named by the dialog; the dialog is opened
\* only by backspace on a listed profile or by d on the preview, without
\* touching the store, and names that profile; while it stays pending no event
\* changes the name it holds.
C6_DeleteOnlyConfirmed ==
  /\ m.currentScreen \in {"manageProfilesScreen", "profilePreviewScreen"} =>
       \A k \in Keys : \A writeOk, removeOk \in BOOLEAN :
         LET r == UpdateKey(World, Event(k, "", writeOk, removeOk))
         IN /\ Removed(disk, r.disk) # {} =>
                 /\ DialogPending
                 /\ k = "y"
                 /\ Removed(disk, r.disk) = {m.deleteProfileName}
            /\ (~m.showDeleteConfirm /\ r.m.showDeleteConfirm) =>
                 /\ r.disk = disk
                 /\ IF m.currentScreen = "manageProfilesScreen"
                    THEN /\ k = "backspace"
                         /\ m.listCursor \in 1..Len(m.profiles)
                         /\ r.m.deleteProfileName = m.profiles[m.listCursor].Name
                    ELSE /\ k = "d"
                         /\ m.previewProfile # <<>>
                         /\ r.m.deleteProfileName = m.previewProfile[1].Name
            /\ (m.showDeleteConfirm /\ r.m.showDeleteConfirm) =>
                 r.m.deleteProfileName = m.deleteProfileName
  /\ m.showDeleteConfirm =>
       \A c \in BagToSet(inflight) :
         /\ c.type = "fetchProjects" =>
              \A res \in ProjectsResults(c) :
                (IF res.ok THEN OnProjectsCompleteMsg(World, res)
                 ELSE OnProjectsErrMsg(World, res)).m.deleteProfileName
                  = m.deleteProfileName
         /\ c.type = "generateReport" =>
              OnReportGeneratedMsg(World, ReportResult(c)).m.deleteProfileName
                = m.deleteProfileName

\* C6 witness: the dialog is pending on a stored profile and yes removes
\* exactly that profile from the store.
C6_Witness ==
  /\ DialogPending
  /\ FileExists(disk, m.deleteProfileName)
  /\ Removed(disk, UpdateKey(World, OkEvent("y")).disk) = {m.deleteProfileName}

\* C7: at most one user-info fetch is in flight at any time.
C7_OneUserFetch == CountOf(inflight, "fetchUserInfo") <= 1

\* C8: when the wizard was cancelled while its fetch was in flight and the
\* result is delivered on the manage-profiles screen, the cursor and the
\* scroll offset of that screen are not modified.
C8_LateProjectsIgnored ==
  [][(m.currentScreen = "manageProfilesScreen"
      /\ CountOf(inflight', "fetchProjects") < CountOf(inflight, "fetchProjects"))
     => (m'.listCursor = m.listCursor /\ m'.listOffset = m.listOffset)]_vars

\* C9: formatting the same report twice yields the same text.
C9_FormatDeterministic ==
  (fmtOut1 # <<>> /\ fmtOut2 # <<>>) => fmtOut1 = fmtOut2

\* the project names of the files, each at its first occurrence
RECURSIVE FirstOccurrences(_, _)
FirstOccurrences(files, seen) ==
  IF files = <<>> THEN <<>>
  ELSE IF GroupOf(Head(files)) \in seen THEN FirstOccurrences(Tail(files), seen)
       ELSE <<GroupOf(Head(files))>>
            \o FirstOccurrences(Tail(files), seen \cup {GroupOf(Head(files))})

\* C10: the sections of the text are in the order in which each project name
\* first occurs in the file list, and the files of a section keep the order
\* of the file list.
C10_SectionsInInsertionOrder ==
  (fmtOut1 # <<>> /\ Len(fmtReport.Files) > 0) =>
    fmtOut1 = formatReportMarkdown(fmtReport, FirstOccurrences(fmtReport.Files, {}))

\* the first instant of the calendar month that contains t, written without
\* the normalisation of time.Date
MonthStart(t) == Date(YearOf(t), MonthOf(t), 1, 0)

\* the year and the month of the calendar month before the one that contains t
PrevMonthYear(t) == IF MonthOf(t) = 1 THEN YearOf(t) - 1 ELSE YearOf(t)

PrevMonth(t) == IF MonthOf(t) = 1 THEN 12 ELSE MonthOf(t) - 1

\* C14: for the last-month mode and any now, the window is from the first
\* instant of the previous calendar month to the last second of that month
\* (one second before the first instant of the month of now): December of the
\* year before when now is in January, and the 29th of February in a leap
\* year (now = 2024-03-15 gives 2024-02-01T00:00:00 to 2024-02-29T23:59:59).
C14_LastMonthWindow ==
  (genWindow # <<>> /\ genIn.config.TimeMode = "last_month") =>
    /\ genWindow[1].Start = Date(PrevMonthYear(genIn.now), PrevMonth(genIn.now), 1, 0)
    /\ genWindow[1].End =
         Date(PrevMonthYear(genIn.now), PrevMonth(genIn.now),
              DaysInMonth(PrevMonthYear(genIn.now), PrevMonth(genIn.now)), 86399)
    /\ genWindow[1].End = MonthStart(genIn.now) - 1
    /\ (YearOf(genIn.now) = 2024 /\ MonthOf(genIn.now) = 3) =>
         /\ YearOf(genWindow[1].Start) = 2024 /\ MonthOf(genWindow[1].Start) = 2
         /\ DayOf(genWindow[1].Start) = 1 /\ ClockOf(genWindow[1].Start) = 0
         /\ YearOf(genWindow[1].End) = 2024 /\ MonthOf(genWindow[1].End) = 2
         /\ DayOf(genWindow[1].End) = 29 /\ ClockOf(genWindow[1].End) = 86399

\* C14 witness: the last-month window resolved on 2024-03-15 is February 2024,
\* up to the last second of the 29th.
C14_Witness ==
  /\ genWindow # <<>>
  /\ genIn.config.TimeMode = "last_month"
  /\ YearOf(genIn.now) = 2024 /\ MonthOf(genIn.now) = 3 /\ DayOf(genIn.now) = 15
  /\ DayOf(genWindow[1].End) = 29 /\ MonthOf(genWindow[1].End) = 2

\* C15: for every time mode and every now the window has start <= end, and
\* the last-month window ends before the calendar month that contains now
\* begins.
C15_WindowOrdered ==
  genWindow # <<>> =>
    /\ genWindow[1].Start <= genWindow[1].End
    /\ genIn.config.TimeMode = "last_month" => genWindow[1].End < MonthStart(genIn.now)

\* C15 witness: a month-to-date window resolved at the first instant of a
\* month, where start = end.
C15_Witness ==
  /\ genWindow # <<>>
  /\ genIn.config.TimeMode = "this_month_to_date"
  /\ genWindow[1].Start = genWindow[1].End

(***************************************************************************)
(* Properties of a run of generateReport, stated on the answers of the     *)
(* gateway (genIn.remote) and the message of the run (genOut[1]).          *)
(***************************************************************************)
KeyOfFile(i) == AllFileKeys[i]

\* the gateway accepts the token of the run
Accepted == genIn.c.token \in genIn.remote.tokens

\* the list request of the file's project is answered
Listed(i) == Accepted /\ genIn.remote.projects[ProjectOfFile(i).ID] # <<>>

\* the list, the metadata and the version-history requests of file i are answered
Fetched(i) ==
  /\ Listed(i)
  /\ genIn.remote.files[KeyOfFile(i)] # <<>>
  /\ genIn.remote.versions[KeyOfFile(i)] # <<>>

\* every list request of the run fails
NoListing == \A q \in {P1, P2} : ~Accepted \/ genIn.remote.projects[q.ID] = <<>>

ModifiedAt(i) == genIn.remote.files[KeyOfFile(i)][1].LastModified

\* the creation time of file i: the time of the oldest (last listed) version
CreatedAtOf(i) ==
  LET vs == genIn.remote.versions[KeyOfFile(i)][1]
  IN IF vs = <<>> THEN ZeroTime ELSE vs[Len(vs)]

StrictlyInside(t, window) == window.Start < t /\ t < window.End

ReportFiles == genOut[1].report.Files

ReportKeys == {ReportFiles[j].FileKey : j \in 1..Len(ReportFiles)}

EntryOf(i) == ReportFiles[CHOOSE j \in 1..Len(ReportFiles) : ReportFiles[j].FileKey = KeyOfFile(i)]

GeneratedOk == genOut # <<>> /\ genOut[1].ok

\* C11: when every request of the run fails (the gateway is unreachable, or
\* it rejects the token, so that every project file-list fetch fails) the run
\* ends with an error message, not with a report.
C11_UnreachableIsError ==
  (genOut # <<>> /\ NoListing) => ~genOut[1].ok

\* C12: a run with a profile is not aborted by a failing metadata or
\* version-history request: it ends with a report, the files whose requests
\* failed are not in it, and every file whose three requests succeeded and
\* which was modified or created inside the window is in it.
C12_FailedFileOmitted ==
  (genOut # <<>> /\ genIn.c.profile # <<>>) =>
    /\ genOut[1].ok
    /\ \A i \in RemoteIndices :
         /\ (Fetched(i) /\ (StrictlyInside(ModifiedAt(i), genOut[1].report.TimeWindow)
                            \/ StrictlyInside(CreatedAtOf(i), genOut[1].report.TimeWindow)))
              => KeyOfFile(i) \in ReportKeys
         /\ ~Fetched(i) => KeyOfFile(i) \notin ReportKeys

\* C12 witness: the metadata request of the first file of a project failed,
\* and the second file of that project is in the report.
C12_Witness ==
  /\ GeneratedOk
  /\ Listed(1) /\ genIn.remote.files[KeyOfFile(1)] = <<>>
  /\ KeyOfFile(2) \in ReportKeys

\* C13: in every generated report totalChanges <= totalFiles, totalFiles is
\* the number of file entries, and every entry is created in the window or
\* modified in the window.
C13_ReportTotals ==
  GeneratedOk =>
    /\ genOut[1].report.TotalChanges <= genOut[1].report.TotalFiles
    /\ genOut[1].report.TotalFiles = Len(ReportFiles)
    /\ \A j \in 1..Len(ReportFiles) :
         ReportFiles[j].CreatedInWindow \/ ReportFiles[j].MyChanges

\* C13 witness: a report of two files, one of them created and modified in
\* the window, the other created in it and not modified in it.
C13_Witness ==
  /\ GeneratedOk
  /\ genOut[1].report.TotalFiles = 2
  /\ genOut[1].report.TotalChanges = 1
  /\ \E j \in 1..Len(ReportFiles) : ReportFiles[j].CreatedInWindow /\ ReportFiles[j].MyChanges

\* C16: for every file whose requests succeeded, the entry's modified flag is
\* "last modified strictly after the start and strictly before the end of the
\* window", its created flag is the same test on the creation time, each
\* computed for itself, and the file is in the report iff one of the two holds:
\* a time stamp equal to the start or to the end does not count.
C16_OpenInterval ==
  GeneratedOk =>
    \A i \in RemoteIndices :
      Fetched(i) =>
        LET w == genOut[1].report.TimeWindow
            modified == w.Start < ModifiedAt(i) /\ ModifiedAt(i) < w.End
            created == w.Start < CreatedAtOf(i) /\ CreatedAtOf(i) < w.End
        IN /\ KeyOfFile(i) \in ReportKeys <=> (modified \/ created)
           /\ KeyOfFile(i) \in ReportKeys =>
                /\ EntryOf(i).MyChanges = modified
                /\ EntryOf(i).CreatedInWindow = created

\* C16 witness: one file has both flags, and a file modified exactly at the end
\* of the window and created exactly at its start is not in the report.
C16_Witness ==
  /\ GeneratedOk
  /\ KeyOfFile(1) \in ReportKeys
  /\ EntryOf(1).MyChanges /\ EntryOf(1).CreatedInWindow
  /\ Fetched(2)
  /\ ModifiedAt(2) = genOut[1].report.TimeWindow.End
  /\ CreatedAtOf(2) = genOut[1].report.TimeWindow.Start
  /\ KeyOfFile(2) \notin ReportKeys

(***************************************************************************)
(* The profile store: default flag, deletion, the Name-and-Save commit.    *)
(***************************************************************************)
StoredNames == {disk[i].Name : i \in 1..Len(disk)}

StoredDefaults == {i \in 1..Len(disk) : disk[i].IsDefault}

\* C17: whatever profiles were created, edited, renamed, deleted or made the
\* default, at most one profile of the store carries the is-default flag.
C17_AtMostOneDefault == Cardinality(StoredDefaults) <= 1

\* the confirmation is pending for the only profile of the store
LastProfilePending ==
  /\ halted = ""
  /\ DialogPending
  /\ Len(disk) = 1
  /\ disk[1].Name = m.deleteProfileName

\* C18: when the store holds exactly one profile and the user deletes it,
\* answering yes to the confirmation, then afterwards the profile list is
\* empty, there is no active profile, the status indicator reads "No profile
\* selected" and no stored profile is flagged default.
C18_DeleteLastProfile ==
  LastProfilePending =>
    LET r == UpdateKey(World, OkEvent("y"))
    IN /\ r.disk = <<>>
       /\ r.m.profiles = <<>>
       /\ r.m.activeProfile = <<>>
       /\ r.m.profileStatus = NoProfileStatus
       /\ \A i \in 1..Len(r.disk) : ~r.disk[i].IsDefault

\* the name field of the Name-and-Save step is being edited
NameEntry ==
  /\ halted = ""
  /\ m.currentScreen = "profileWizardScreen"
  /\ m.wizardStep = "wizardSaveName"
  /\ m.editingIndex = 0

\* the wizard edits a profile and the name typed is that profile's own name
OwnName ==
  /\ m.wizardEditMode
  /\ m.previewProfile # <<>>
  /\ m.textInput = m.previewProfile[1].Name

\* C19: enter on the name field with an empty name, or with a name that is
\* exactly the name of a stored profile, is rejected: the store is left as it
\* was, an error message is set and the wizard stays on the Name-and-Save
\* step; but when a profile is being edited and the name is its own original
\* name the commit is accepted and, the write succeeding, the profile is
\* stored under that name and the wizard is left.
C19_NameValidated ==
  NameEntry =>
    \A writeOk, removeOk \in BOOLEAN :
      LET r == UpdateKey(World, Event("enter", "", writeOk, removeOk))
      IN /\ (m.textInput = "" \/ (m.textInput \in StoredNames /\ ~OwnName)) =>
              /\ ~r.halt
              /\ r.disk = disk
              /\ r.m.loadingError \in {"Profile name is required",
                                       "Profile name already exists"}
              /\ r.m.currentScreen = "profileWizardScreen"
              /\ r.m.wizardStep = "wizardSaveName"
         /\ (m.textInput # "" /\ OwnName /\ writeOk) =>
              /\ ~r.halt
              /\ FileExists(r.disk, m.textInput)
              /\ r.m.currentScreen = "manageProfilesScreen"

\* C19 witness: a profile is being renamed and the name typed is the name of
\* another stored profile.
C19_Witness ==
  /\ NameEntry
  /\ m.wizardEditMode
  /\ m.previewProfile # <<>>
  /\ m.textInput \in StoredNames
  /\ m.textInput # m.previewProfile[1].Name

\* the record stored under a name
StoredAs(d, name) == d[CHOOSE i \in 1..Len(d) : d[i].Name = name]

\* C20: when the wizard commits a new profile (create mode), the profile is
\* flagged default and becomes the active profile if the store held no
\* profile at that moment; if the store held a profile, the new one is not
\* default and the active profile stays what it was.
C20_FirstProfileIsDefault ==
  (NameEntry /\ ~m.wizardEditMode) =>
    LET r == UpdateKey(World, OkEvent("enter"))
        committed == ~r.halt /\ r.m.currentScreen = "manageProfilesScreen"
    IN committed =>
         IF disk = <<>>
         THEN /\ StoredAs(r.disk, m.textInput).IsDefault
              /\ r.m.activeProfile = <<StoredAs(r.disk, m.textInput)>>
         ELSE /\ ~StoredAs(r.disk, m.textInput).IsDefault
              /\ r.m.activeProfile = m.activeProfile

(***************************************************************************)
(* The profile wizard: steps, validation, cancel, list and selection.      *)
(***************************************************************************)
OnWizard == halted = "" /\ m.currentScreen = "profileWizardScreen"

\* every outcome of the key on the current state
KeyOutcomes(key) ==
  {UpdateKey(World, Event(key, "", writeOk, removeOk)) : writeOk, removeOk \in BOOLEAN}

\* C21: on the Project-Selection step with no project selected, enter leaves
\* the wizard on Project-Selection, sets the error that asks to select at
\* least one project, and returns no command (the store is untouched).
C21_EmptySelectionRejected ==
  (OnWizard /\ m.wizardStep = "wizardProjects" /\ m.wizardSelectedProj = {}) =>
    \A r \in KeyOutcomes("enter") :
      /\ ~r.halt
      /\ r.m.currentScreen = "profileWizardScreen"
      /\ r.m.wizardStep = "wizardProjects"
      /\ r.m.loadingError = "Please select at least one project"
      /\ r.cmds = <<>>
      /\ r.disk = disk

\* C21 witness: the project list is loaded and shown, nothing is selected.
C21_Witness ==
  /\ OnWizard
  /\ m.wizardStep = "wizardProjects"
  /\ m.wizardSelectedProj = {}
  /\ m.wizardProjects # <<>>
  /\ m.loadingState = "notLoading"

\* the team identifier of the Team-Selection step is being edited
TeamEntry ==
  /\ OnWizard
  /\ m.wizardStep = "wizardTeamID"
  /\ m.editingIndex = 0

\* C22: confirming the team identifier with an empty buffer leaves the wizard
\* on Team-Selection with the error "Team ID is required" and returns no
\* command; confirming a non-empty identifier moves the wizard to
\* Project-Selection in the loading sub-state and returns exactly one command,
\* the project-discovery fetch for that identifier.
C22_TeamConfirm ==
  TeamEntry =>
    \A r \in KeyOutcomes("enter") :
      /\ ~r.halt
      /\ r.m.currentScreen = "profileWizardScreen"
      /\ r.disk = disk
      /\ IF m.textInput = ""
         THEN /\ r.m.wizardStep = "wizardTeamID"
              /\ r.m.loadingError = "Team ID is required"
              /\ r.cmds = <<>>
         ELSE /\ r.m.wizardStep = "wizardProjects"
              /\ r.m.loadingState = "loadingProjects"
              /\ r.cmds = <<fetchProjects(m.figmaToken, m.textInput)>>

\* C22 witness: the identifier is being edited and the buffer is empty.
C22_Witness == TeamEntry /\ m.textInput = ""

\* the failed results an in-flight command of the type can deliver
FailedResults(type) ==
  {res \in UNION {IF type = "fetchUserInfo" THEN UserInfoResults(c)
                  ELSE ProjectsResults(c) : c \in InFlight(type)} : ~res.ok}

\* the delivery changed neither the place of the user nor the stores
SamePlace(r) ==
  /\ ~r.halt
  /\ r.cmds = <<>>
  /\ r.disk = disk
  /\ r.cfg = cfgFile
  /\ r.m.currentScreen = m.currentScreen
  /\ r.m.wizardStep = m.wizardStep
  /\ r.m.editingIndex = m.editingIndex

\* C23: the delivery of a failed user-info result stores its message in
\* userFetchError and clears fetchingUser; the delivery of a failed
\* project-discovery result stores its message in loadingError and clears the
\* loading state; either returns no command and changes neither the current
\* screen nor the wizard step.
C23_FailureStaysInPlace ==
  halted = "" =>
    /\ \A res \in FailedResults("fetchUserInfo") :
         LET r == OnUserInfoErrMsg(World, res)
         IN /\ SamePlace(r)
            /\ r.m.userFetchError = res.err
            /\ ~r.m.fetchingUser
    /\ \A res \in FailedResults("fetchProjects") :
         LET r == OnProjectsErrMsg(World, res)
         IN /\ SamePlace(r)
            /\ r.m.loadingError = res.err
            /\ r.m.loadingState = "notLoading"

\* C23 witness: the wizard waits on Project-Selection for a discovery that
\* can fail.
C23_Witness ==
  /\ OnWizard
  /\ m.wizardStep = "wizardProjects"
  /\ m.loadingState = "loadingProjects"
  /\ FailedResults("fetchProjects") # {}

\* the step is the successful commit of the Name-and-Save step, the one way
\* out of the wizard that is not a cancel
CommitStep ==
  /\ m.wizardStep = "wizardSaveName"
  /\ m.editingIndex = 0
  /\ m'.currentScreen = "manageProfilesScreen"

\* C24: a wizard session that ends with esc has no side effect.  Such a
\* session is made of steps taken on the wizard screen that are not the
\* successful commit, and esc can end it after any of them; so no such step
\* writes or deletes in the store or changes the profile list or the active
\* profile, and esc, pressed when no field is being edited, leads to the
\* manage-profiles screen.
C24_CancelHasNoEffect ==
  [][(OnWizard /\ ~CommitStep) =>
       /\ disk' = disk
       /\ m'.profiles = m.profiles
       /\ m'.activeProfile = m.activeProfile
       /\ (m.editingIndex = -1 =>
             \A r \in KeyOutcomes("esc") :
               r.m.currentScreen = "manageProfilesScreen" /\ r.disk = disk)]_vars

\* the steps of the wizard in their order
WizardSteps3 == <<"wizardTeamID", "wizardProjects", "wizardSaveName">>

StepIndex(step) == CHOOSE i \in 1..Len(WizardSteps3) : WizardSteps3[i] = step

\* C25: a step that enters the wizard screen (to create or to edit a profile)
\* puts the wizard on Team-Selection, and a step that stays on the wizard
\* screen, a key or a delivered result, leaves the wizard step where it is or
\* moves it to the next one in the order Team-Selection, Project-Selection,
\* Name-and-Save: never backwards, never two at once.
C25_StepsForward ==
  [][/\ (m.currentScreen # "profileWizardScreen"
         /\ m'.currentScreen = "profileWizardScreen") =>
          m'.wizardStep = "wizardTeamID"
     /\ (m.currentScreen = "profileWizardScreen"
         /\ m'.currentScreen = "profileWizardScreen") =>
          StepIndex(m'.wizardStep) - StepIndex(m.wizardStep) \in {0, 1}]_vars

\* C25 witness: a session that creates a profile has reached Name-and-Save.
C25_Witness ==
  /\ OnWizard
  /\ ~m.wizardEditMode
  /\ m.wizardStep = "wizardSaveName"

(***************************************************************************)
(* The setup screen: edit sessions on a field of the configuration.        *)
(***************************************************************************)
\* the field of the configuration that row i of the setup screen edits
FieldOf(i) ==
  CASE i = 0 -> "FigmaToken"
    [] i = 1 -> "UserID"
    [] OTHER -> "TeamID"

\* C26: on the setup screen, the step that starts an edit session puts the
\* field's current value in the buffer; no step of the session changes the
\* configuration or writes the configuration file, except the step that ends
\* it by confirm: then the edited field is the buffer, every other field is
\* what it was, and the configuration file holds the new configuration; a
\* session ended by cancel leaves the configuration and the file as they were.
C26_EditSession ==
  [][(halted = "" /\ m.currentScreen = "setupScreen"
      /\ m'.currentScreen = "setupScreen") =>
       /\ (m.editingIndex = -1 /\ m'.editingIndex # -1) =>
            /\ m'.textInput = configOf(m)[FieldOf(m'.editingIndex)]
            /\ configOf(m') = configOf(m)
            /\ cfgFile' = cfgFile
       /\ (m.editingIndex # -1 /\ m'.editingIndex # -1) =>
            /\ configOf(m') = configOf(m)
            /\ cfgFile' = cfgFile
       /\ (m.editingIndex # -1 /\ m'.editingIndex = -1) =>
            \/ /\ configOf(m') = configOf(m)
               /\ cfgFile' = cfgFile
            \/ /\ configOf(m') =
                    [configOf(m) EXCEPT ![FieldOf(m.editingIndex)] = m.textInput]
               /\ cfgFile' = configOf(m')]_vars

\* the project list of the wizard is shown and holds projects
OnProjectList ==
  /\ OnWizard
  /\ m.wizardStep = "wizardProjects"
  /\ m.wizardProjects # <<>>

\* the cursor is an index of the list and is on the visible page
CursorVisible(mm) ==
  /\ mm.listCursor \in 0..(Len(mm.wizardProjects) - 1)
  /\ mm.listOffset <= mm.listCursor
  /\ mm.listCursor < mm.listOffset + 10

\* C27: on the project list of the wizard, whatever up and down keys were
\* pressed and whatever project lists were delivered, the cursor is an index
\* of the list and lies on the visible page of ten rows (listOffset <=
\* listCursor < listOffset + 10); and a step that moves the cursor to a row of
\* the page that was visible leaves the offset as it was.
C27_CursorOnPage ==
  [][/\ OnProjectList => CursorVisible(m)
     /\ OnProjectList' => CursorVisible(m')
     /\ (OnProjectList /\ OnProjectList' /\ m'.wizardProjects = m.wizardProjects
         /\ m'.listCursor # m.listCursor
         /\ m.listOffset <= m'.listCursor
         /\ m'.listCursor < m.listOffset + 10) =>
          m'.listOffset = m.listOffset]_vars

\* C27 witness: the list is longer than a page and has been scrolled.
C27_Witness ==
  /\ OnProjectList
  /\ Len(m.wizardProjects) > PageSize
  /\ m.listOffset > 0

(***************************************************************************)
(* The spinner tick.                                                       *)
(***************************************************************************)
Ticking == CountOf(inflight, "tick") > 0

\* what the delivery of a tick does in the current state
TickHandled ==
  (halted = "" /\ Ticking) =>
    LET r == OnTickMsg(World)
    IN IF m.generatingReport
       THEN /\ r.m.spinnerFrame = (m.spinnerFrame + 1) % 4
            /\ r.cmds = <<tickCmd>>
       ELSE /\ r.m = m
            /\ r.disk = disk
            /\ r.cfg = cfgFile
            /\ r.cmds = <<>>

\* C28: a tick delivered while a report is being generated advances the
\* spinner and schedules exactly one further tick; a tick delivered while no
\* report is being generated changes nothing and schedules no tick; so once
\* the generation has ended (its result was delivered, or esc was pressed) the
\* ticking stops, unless a new generation is started before it has.
C28_TickStops ==
  /\ []TickHandled
  /\ (~m.generatingReport) ~> (m.generatingReport \/ ~Ticking \/ halted # "")

\* C28 witness: the generation has ended and a tick is still pending.
C28_Witness ==
  /\ halted = ""
  /\ ~m.generatingReport
  /\ Ticking

(***************************************************************************)
(* exportReport: the run of the command on its own.  The inputs are the    *)
(* text, the profile name, the instant of the run and the outcome of the   *)
(* two file-system calls.                                                  *)
(***************************************************************************)
ExportNames == {"", "a", "design-system"}

ExportTexts == {<<>>, <<"# Figma Activity Report">>,
                <<"# Figma Activity Report", "- file">>}

ExportInstants ==
  {Date(FirstYear + 1, 6, 1, 0), Date(FirstYear + 1, 6, 1, 86399),
   Date(FirstYear + 1, 2, 29, 43200), Date(FirstYear, 12, 31, 86399),
   Date(FirstYear + 2, 1, 1, 0)}

ExportInit ==
  /\ genIn \in [content : ExportTexts, profileName : ExportNames,
                now : ExportInstants, mkdirOk : BOOLEAN, writeOk : BOOLEAN]
  /\ genWindow = <<>>
  /\ genOut = <<>>
  /\ fmtReport = <<>>
  /\ fmtOut1 = <<>>
  /\ fmtOut2 = <<>>
  /\ disk = <<>>
  /\ cfgFile = CHOOSE c \in InitialConfigs : TRUE
  /\ m = initialModel(disk, cfgFile)
  /\ cmd = <<>>
  /\ inflight = EmptyBag
  /\ now = 1
  /\ halted = ""
  /\ budget = -1

RunExport ==
  /\ genOut = <<>>
  /\ genOut' = <<exportReportRun(exportReport(genIn.content, genIn.profileName),
                                 genIn.now, genIn.mkdirOk, genIn.writeOk)>>
  /\ UNCHANGED <<m, disk, cfgFile, cmd, inflight, now, halted, budget,
                 fmtReport, fmtOut1, fmtOut2, genIn, genWindow>>

SpecExport == ExportInit /\ [][RunExport]_vars

\* the export ran on a profile name
ExportedFor == genOut # <<>> /\ genIn.profileName # ""

\* the path reports/N-D.md of the run
ExportPath ==
  <<"reports", "/", genIn.profileName, "-",
    YearOf(genIn.now), "-", MonthOf(genIn.now), "-", DayOf(genIn.now), ".md">>

\* C29: the export of a text under the profile name N, run on the date D,
\* writes one file, reports/N-D.md (D as year-month-day), whose content is
\* the text, and returns that path; when the directory cannot be made or
\* the file cannot be written it returns an export error and writes nothing.
C29_ExportWritesNamedFile ==
  ExportedFor =>
    IF genIn.mkdirOk /\ genIn.writeOk
    THEN /\ genOut[1].ok
         /\ genOut[1].filepath = ExportPath
         /\ genOut[1].written = <<[path |-> ExportPath, content |-> genIn.content]>>
    ELSE /\ ~genOut[1].ok
         /\ genOut[1].err \in {"Failed to create reports directory",
                               "Failed to write report"}
         /\ genOut[1].written = <<>>

\* C29 witness: the report of design-system exported on the first of June
\* of the second year.
C29_Witness ==
  /\ ExportedFor
  /\ genIn.profileName = "design-system"
  /\ genIn.content # <<>>
  /\ genOut[1].ok
  /\ genOut[1].filepath =
       <<"reports", "/", "design-system", "-", FirstYear + 1, "-", 6, "-", 1, ".md">>

(***************************************************************************)
(* The export that follows a generated report.                             *)
(***************************************************************************)
\* the report runs in flight that end with a report
FinishingRuns == {c \in InFlight("generateReport") : ReportResult(c).ok}

\* C32: on the delivery of a generated report, the export that is
\* dispatched carries the text of the report and the name of the profile the
\* report was generated for, whether or not that profile is the active one.
C32_ExportNamedAfterReported ==
  halted = "" =>
    \A c \in FinishingRuns :
      LET r == OnReportGeneratedMsg(World, ReportResult(c))
      IN /\ Len(r.cmds) = 1
         /\ r.cmds[1].type = "exportReport"
         /\ r.cmds[1].content = ReportResult(c).content
         /\ r.cmds[1].profileName = c.profile[1].Name

(***************************************************************************)
(* The selection of projects in the wizard.                                *)
(***************************************************************************)
\* the project under the cursor of the list
UnderCursor == m.wizardProjects[m.listCursor + 1].ID

\* every project id the session can hold
KnownIDs ==
  {ProjectIDs[i] : i \in 1..Len(ProjectIDs)} \cup m.wizardSelectedProj
    \cup {m.wizardProjects[i].ID : i \in 1..Len(m.wizardProjects)}

\* the project lists an in-flight discovery can deliver
FetchedLists ==
  {res \in UNION {ProjectsResults(c) : c \in InFlight("fetchProjects")} : res.ok}

\* C30: on the project list of the wizard, space flips the membership of
\* the id of the project under the cursor in the selection and leaves the
\* membership of every other id as it was, returning no command; a second
\* space on the same project gives back the selection held before the first;
\* and the delivery of a project list, which replaces the list, leaves the
\* selection as it was.
C30_ToggleByIdentity ==
  /\ OnProjectList /\ m.listCursor < Len(m.wizardProjects) =>
       LET once == UpdateKey(World, OkEvent(" "))
           twice == UpdateKey([World EXCEPT !.m = once.m], OkEvent(" "))
       IN /\ once.cmds = <<>> /\ ~once.halt
          /\ once.m.wizardProjects = m.wizardProjects
          /\ once.m.listCursor = m.listCursor
          /\ UnderCursor \in once.m.wizardSelectedProj
               <=> UnderCursor \notin m.wizardSelectedProj
          /\ \A id \in KnownIDs \cup once.m.wizardSelectedProj :
               id # UnderCursor =>
                 (id \in once.m.wizardSelectedProj <=> id \in m.wizardSelectedProj)
          /\ twice.m.wizardSelectedProj = m.wizardSelectedProj
  /\ halted = "" =>
       \A res \in FetchedLists :
         LET r == OnProjectsCompleteMsg(World, res)
         IN /\ r.m.wizardProjects = res.projects
            /\ r.m.wizardSelectedProj = m.wizardSelectedProj

\* C30 witness: in a new-profile wizard, where the selection starts empty,
\* the first project is selected and the cursor is on the second, which is
\* not.
C30_Witness ==
  /\ OnProjectList
  /\ ~m.wizardEditMode
  /\ m.listCursor = 1
  /\ Len(m.wizardProjects) >= 2
  /\ m.wizardProjects[1].ID \in m.wizardSelectedProj
  /\ UnderCursor \notin m.wizardSelectedProj

(***************************************************************************)
(* The profile the wizard commits.                                         *)
(***************************************************************************)
\* C31: a profile the wizard commits to the store, when a new profile is
\* made as when a profile is edited, holds at least one selected project.
C31_CommittedHasProject ==
  NameEntry =>
    LET r == UpdateKey(World, OkEvent("enter"))
        committed == ~r.halt /\ r.m.currentScreen = "manageProfilesScreen"
    IN committed => StoredAs(r.disk, m.textInput).SelectedProjects # <<>>

(***************************************************************************)
(* Report generations the user cancelled.                                  *)
(***************************************************************************)
\* no generation is awaited: every report run still in flight was cancelled
\* with esc
NoneAwaited == halted = "" /\ ~m.generatingReport

\* C33: the delivery of the report of a generation the user cancelled with
\* esc dispatches no export command, so that no report file is written for
\* it.
C33_CancelledNotExported ==
  NoneAwaited =>
    \A c \in FinishingRuns :
      OnReportGeneratedMsg(World, ReportResult(c)).cmds = <<>>

\* a generation is awaited: the configuration confirmed last is held in
\* reportConfig and reportingProfile
Awaited == halted = "" /\ m.generatingReport /\ m.reportingProfile # <<>>

\* C34: while a generation is awaited, the delivery of a report ends the
\* loading state and shows the report only if the report was generated for
\* the configuration confirmed last (its profile and its time mode); the
\* report of an earlier, cancelled generation is not shown in its place.
C34_ShownReportIsLatest ==
  Awaited =>
    \A c \in FinishingRuns :
      LET r == OnReportGeneratedMsg(World, ReportResult(c))
          shown == ~r.m.generatingReport /\ r.m.currentScreen = "reportViewScreen"
      IN shown =>
           /\ r.m.activityReport.Profile = m.reportingProfile[1].Name
           /\ r.m.activityReport.TimeMode = m.reportConfig.TimeMode

(***************************************************************************)
(* The profile entries of the main menu.                                   *)
(***************************************************************************)
\* the titles of the profile entries the main menu shows
ProfileTitles ==
  {m.menuItems[i].title : i \in {j \in 1..Len(m.menuItems) :
      Len(m.menuItems[j].title) >= 2 /\ m.menuItems[j].title[1] = "  - "}}

OnMainMenu == halted = "" /\ m.currentScreen = "mainMenuScreen"

\* C35: every profile entry the main menu shows names a profile of the
\* store, and enter on it makes that profile the one default of the store
\* and the active profile.
C35_MenuEntrySelectable ==
  OnMainMenu =>
    \A title \in ProfileTitles :
      LET r == MenuSelectProfile(World, title)
      IN /\ title[2] \in StoredNames
         /\ {r.disk[i].Name : i \in {j \in 1..Len(r.disk) : r.disk[j].IsDefault}}
              = {title[2]}
         /\ r.m.activeProfile # <<>>
         /\ r.m.activeProfile[1].Name = title[2]

(***************************************************************************)
(* The active profile, the default of the store and the status indicator.  *)
(***************************************************************************)
\* C36: while no report generation is in progress, the status indicator
\* names the active profile when there is one and reads "No profile
\* selected" when there is none.
C36_StatusAgrees ==
  NoneAwaited =>
    m.profileStatus = IF m.activeProfile = <<>> THEN NoProfileStatus
                      ELSE ProfileStatus(m.activeProfile[1].Name)

\* C37: the active profile, when there is one, is a profile of the current
\* list and is flagged default there; when there is none, no profile of the
\* list is flagged default.
C37_ActiveIsDefault ==
  halted = "" =>
    IF m.activeProfile # <<>>
    THEN \E i \in 1..Len(m.profiles) :
           /\ m.profiles[i].Name = m.activeProfile[1].Name
           /\ m.profiles[i].IsDefault
    ELSE \A i \in 1..Len(m.profiles) : ~m.profiles[i].IsDefault

\* the confirmation is pending for a stored profile while another profile is
\* stored too
DeletePending ==
  /\ halted = ""
  /\ DialogPending
  /\ m.deleteProfileName \in StoredNames
  /\ Len(disk) >= 2

DeletesActive ==
  m.activeProfile # <<>> /\ m.activeProfile[1].Name = m.deleteProfileName

\* the names of the profiles flagged default in a store
DefaultNames(d) == {d[i].Name : i \in {j \in 1..Len(d) : d[j].IsDefault}}

GroupSizes == {0, 1, MaxGroupFiles}

FileGroups == UNION {[1..n -> GroupSizes] : n \in 0..MaxGroups}

\* the rows of one project: none when it has no file, else its header and
\* its files
GroupRows(project, size) ==
  IF size = 0 THEN <<>>
  ELSE <<[IsHeader |-> TRUE, ProjectID |-> project, File |-> 0]>>
       \o [k \in 1..size |-> [IsHeader |-> FALSE, ProjectID |-> project, File |-> k]]

RECURSIVE FileListFrom(_, _)
FileListFrom(groups, project) ==
  IF project > Len(groups) THEN <<>>
  ELSE GroupRows(project, groups[project]) \o FileListFrom(groups, project + 1)

\* filesCompleteMsg: the flat list is built and the cursor is put on the
\* first row that is not a header
OnFilesCompleteMsg(groups) ==
  LET list == FileListFrom(groups, 1)
      files == {i \in 1..Len(list) : ~list[i].IsHeader}
  IN [wizardFileList |-> list,
      listOffset |-> 0,
      listCursor |-> IF files = {} THEN 0
                     ELSE (CHOOSE i \in files : \A j \in files : i <= j) - 1]

\* up on the file list: step up until a row that is not a header, or row 0
RECURSIVE FileListUp(_)
FileListUp(mm) ==
  IF mm.listCursor > 0
  THEN LET cursor == mm.listCursor - 1
       IN IF ~mm.wizardFileList[cursor + 1].IsHeader
          THEN [mm EXCEPT !.listCursor = cursor,
                          !.listOffset = IF cursor < @ THEN cursor ELSE @]
          ELSE FileListUp([mm EXCEPT !.listCursor = cursor])
  ELSE mm

\* down on the file list: step down until a row that is not a header, or
\* the last row
RECURSIVE FileListDown(_)
FileListDown(mm) ==
  IF mm.listCursor < Len(mm.wizardFileList) - 1
  THEN LET cursor == mm.listCursor + 1
       IN IF ~mm.wizardFileList[cursor + 1].IsHeader
          THEN [mm EXCEPT !.listCursor = cursor,
                          !.listOffset = IF cursor >= @ + PageSize
                                         THEN cursor - PageSize + 1 ELSE @]
          ELSE FileListDown([mm EXCEPT !.listCursor = cursor])
  ELSE mm

FilesInit ==
  /\ genIn \in FileGroups
  /\ genOut = <<>>
  /\ genWindow = <<>>
  /\ fmtReport = <<>>
  /\ fmtOut1 = <<>>
  /\ fmtOut2 = <<>>
  /\ disk = <<>>
  /\ cfgFile = CHOOSE c \in InitialConfigs : TRUE
  /\ m = initialModel(disk, cfgFile)
  /\ cmd = <<>>
  /\ inflight = EmptyBag
  /\ now = 1
  /\ halted = ""
  /\ budget = -1

DeliverFiles ==
  /\ genOut = <<>>
  /\ genOut' = <<OnFilesCompleteMsg(genIn)>>
  /\ UNCHANGED <<m, disk, cfgFile, cmd, inflight, now, halted, budget,
                 fmtReport, fmtOut1, fmtOut2, genIn, genWindow>>

\* up or down while the wizard is on the File-Selection step
KeyOnFileList ==
  /\ genOut # <<>>
  /\ Len(genOut[1].wizardFileList) > 0
  /\ \E key \in {"up", "down"} :
       genOut' = <<IF key = "up" THEN FileListUp(genOut[1]) ELSE FileListDown(genOut[1])>>
  /\ UNCHANGED <<m, disk, cfgFile, cmd, inflight, now, halted, budget,
                 fmtReport, fmtOut1, fmtOut2, genIn, genWindow>>

NextFiles == DeliverFiles \/ KeyOnFileList

SpecFiles == FilesInit /\ [][NextFiles]_vars

\* C39: once the files are delivered, and whatever up and down keys follow,
\* when the list holds a file the cursor is on a row that is not a project
\* header and is on the visible page.
C39_CursorOnFile ==
  (genOut # <<>> /\ \E i \in 1..Len(genOut[1].wizardFileList) :
                      ~genOut[1].wizardFileList[i].IsHeader) =>
    /\ genOut[1].listCursor \in 0..(Len(genOut[1].wizardFileList) - 1)
    /\ ~genOut[1].wizardFileList[genOut[1].listCursor + 1].IsHeader
    /\ genOut[1].listOffset <= genOut[1].listCursor
    /\ genOut[1].listCursor < genOut[1].listOffset + PageSize

(***************************************************************************)
(* Indices into the profile list.                                          *)
(***************************************************************************)
\* C40: on the manage-profiles screen the cursor is between 0 and the
\* number of profiles of the list plus one; and on the report configuration,
\* when profiles exist, the index of the report profile is an index of the
\* list, so that enter starts the generation without an access out of the
\* list.
C40_IndicesInBounds ==
  halted = "" =>
    /\ m.currentScreen = "manageProfilesScreen" =>
         (0 <= m.listCursor /\ m.listCursor <= Len(m.profiles) + 1)
    /\ (m.currentScreen = "reportConfigScreen" /\ Len(m.profiles) > 0) =>
         /\ 0 <= m.reportProfileIndex /\ m.reportProfileIndex < Len(m.profiles)
         /\ ~UpdateKey(World, OkEvent("enter")).halt

====
